---- MODULE Spec2Model ----
(***************************************************************************)
(* A model of grimoire's task engine (Engine: available, getNextTask,      *)
(* execute and its pipeline, markAttempt, checkLimits, the wandering       *)
(* noncombat repeat) and of the Outfit equip solver (equip of items,       *)
(* familiars, arrays and specs, riders, modes).                            *)
(***************************************************************************)
EXTENDS Integers, Sequences, FiniteSets, TLC

VARIABLES
  tasks,          \* Engine.tasks: the task list, in declaration order
  attempts,       \* Engine.attempts: task name -> count, Undef while absent
  completed,      \* what task.completed() returns now, by task name
  ready,          \* what task.ready() returns now, by task name
  lastEncounter,  \* the property "lastEncounter"
  lastAdventure,  \* the property "lastAdventure" (NoLocation when unset)
  turnsSpent,     \* Location.turnsSpent, by location
  cur,            \* index of the task inside execute(), 0 when none
  pc,             \* position inside execute(): the next step, "idle" outside
  postcondition,  \* execute's local: the guard's 'before' snapshot
  result,         \* how the last execute() ended
  log,            \* history: the steps the current execute() has performed
  calls,          \* history: number of execute() calls so far, by task name
  threw,          \* history: the tasks one of whose execute() calls threw
  startAttempts,  \* history: attempts[task.name] when the execute() began
  build,          \* which Outfit source is built: src/outfit.ts or part_005
  outfit,         \* the Outfit under construction
  ops,            \* history: the number of calls made on the outfit
  lastEquip,      \* history: the last call on the outfit and its result
  heap,           \* the Map objects of the combat strategies, by reference
  strategy,       \* a task's CombatStrategy (the template): its own fields
  clones,         \* the objects CombatStrategy.clone() has returned
  combatOps,      \* history: the number of calls made on the strategies
  lastCombat,     \* history: the last call on a strategy and its result
  game,           \* the game: what the player wears, the active familiar
  dresses,        \* history: the number of dress() calls so far
  lastDress,      \* history: the last dress() call, its game calls and result
  myEffects,      \* the game: the player's active effects, in myEffects() order
  mariachi,       \* the game: whether the player has Mariachi Memory
  acquires,       \* history: the number of acquireEffects() calls so far
  lastAcquire,    \* history: the last acquireEffects() call and its result
  inventory,      \* the game: the copies of each item in inventory and worn
  itemCalls,      \* history: the number of acquireItems() calls so far
  lastItems,      \* history: the last acquireItems() call, its visits and result
  cachedCcsContents, \* Engine.cachedCcsContents
  propertyManager,   \* Engine.propertyManager: the saved value of each property set
  properties,        \* the game: the value of each property
  autoAttack,        \* the game: the auto-attack macro (0: none)
  lifeOps,           \* history: the number of engine calls so far
  lastLife,          \* history: the last engine call and the state before it
  ccs,               \* the combat-script file and each engine's cached text
  run,               \* the run() call: its state, count, iterations, tasks executed
  quests,            \* the quest objects of a script
  lastTasks,         \* history: the getTasks() call, its input and result
  player             \* the game: the player's familiar, worn items, riders, modes

engineVars == <<tasks, attempts, completed, ready, lastEncounter, lastAdventure,
                turnsSpent, cur, pc, postcondition, result, log, calls,
                threw, startAttempts>>
world == <<completed, ready, lastEncounter, lastAdventure, turnsSpent>>
hist == <<calls, threw, startAttempts>>
outfitVars == <<build, outfit, ops, lastEquip>>
combatVars == <<heap, strategy, clones, combatOps, lastCombat>>
dressVars == <<game, dresses, lastDress>>
effectVars == <<myEffects, mariachi, acquires, lastAcquire>>
itemVars == <<inventory, itemCalls, lastItems>>
lifeVars == <<cachedCcsContents, propertyManager, properties, autoAttack,
             lifeOps, lastLife, ccs>>
taskVars == <<quests, lastTasks>>
restVars == <<combatVars, dressVars, effectVars, itemVars, lifeVars, run, taskVars, player>>
vars == <<engineVars, outfitVars, restVars>>

\* JavaScript's undefined, for numbers
Undef == 0 - 1

----------------------------------------------------------------------------
(* Bounds *)

\* the tries limit of the spec's scenario D
Tries == 3
\* execute() calls explored in one engine's life
MaxCalls == 3
\* body runs explored in one execute()
MaxRuns == 2
\* turns a location's counter is followed to
MaxTurns == 2

----------------------------------------------------------------------------
(* Tasks *)

NoLocation == "none"
Locations == {"Indoors", "Outdoors"}
environment(loc) == IF loc = "Indoors" THEN "indoor" ELSE "outdoor"

\* Limit: numbers are Undef when the member is not given
Limit(tries, soft, turns, unready, comp, guard, skip) ==
  [present |-> TRUE, tries |-> tries, soft |-> soft, turns |-> turns,
   unready |-> unready, completed |-> comp, guard |-> guard, skip |-> skip]
NoLimit ==
  [present |-> FALSE, tries |-> Undef, soft |-> Undef, turns |-> Undef,
   unready |-> FALSE, completed |-> FALSE, guard |-> FALSE, skip |-> Undef]

\* Task: do is a location or "callback"; hasReady says whether ready is given
Task(name, after, hasReady, do, limit) ==
  [name |-> name, after |-> after, hasReady |-> hasReady, do |-> do,
   limit |-> limit]

TaskNames == {"A", "B", "C"}

\* The task lists an engine is constructed with.  "X" names no task.
TaskLists ==
  { \* the spec's scenarios: A after B, B after C; tries = 3
    << Task("A", <<"B">>, FALSE, "Indoors",
            Limit(Tries, Undef, Undef, FALSE, FALSE, FALSE, Undef)),
       Task("B", <<"C">>, FALSE, "callback", NoLimit),
       Task("C", <<>>, TRUE, "Indoors",
            Limit(Undef, 2, Undef, TRUE, FALSE, TRUE, Undef)) >>,
    \* A after B only; every kind of limit
    << Task("A", <<"B">>, TRUE, "callback",
            Limit(1, Undef, Undef, FALSE, FALSE, FALSE, Undef)),
       Task("B", <<>>, FALSE, "Indoors",
            Limit(Undef, Undef, 1, FALSE, TRUE, FALSE, Undef)),
       Task("C", <<>>, FALSE, "Indoors",
            Limit(2, Undef, Undef, FALSE, FALSE, TRUE, 1)) >>,
    \* an unknown dependency, and skip limits
    << Task("A", <<"B", "X">>, FALSE, "callback",
            Limit(2, Undef, Undef, FALSE, FALSE, FALSE, Undef)),
       Task("B", <<>>, TRUE, "Indoors",
            Limit(Undef, Undef, Undef, FALSE, FALSE, FALSE, 0)),
       Task("C", <<"X", "B">>, FALSE, "callback", NoLimit) >> }

\* Engine.tasks_by_name.get(name): the index of the task, 0 when unknown
tasks_by_name(name) ==
  IF \E i \in 1..Len(tasks) : tasks[i].name = name
  THEN CHOOSE i \in 1..Len(tasks) : tasks[i].name = name
  ELSE 0

----------------------------------------------------------------------------
(* Engine.available and Engine.getNextTask *)

\* a >= b as JavaScript compares: false when a is undefined
GreaterEq(a, b) == a # Undef /\ a >= b

\* afterLoop, were it to follow the dependencies of a dependency as well
RECURSIVE afterLoopTransitive(_, _)
afterLoopTransitive(after, i) ==
  IF i > Len(after) THEN "pass"
  ELSE LET after_task == tasks_by_name(after[i]) IN
       IF after_task = 0 THEN "throw"
       ELSE IF ~completed[tasks[after_task].name] THEN "false"
       ELSE LET deeper == afterLoopTransitive(tasks[after_task].after, 1) IN
            IF deeper # "pass" THEN deeper
            ELSE afterLoopTransitive(after, i + 1)

\* the loop over task.after, from its i-th entry: "throw", "false" or "pass"
RECURSIVE afterLoop(_, _)
afterLoop(after, i) ==
  IF i > Len(after) THEN "pass"
  ELSE LET after_task == tasks_by_name(after[i]) IN
       IF after_task = 0 THEN "throw"
       ELSE IF ~completed[tasks[after_task].name] THEN "false"
       ELSE afterLoop(after, i + 1)

\* available, were it to leave out the test of task.completed()
availableNoCompleted(task) ==
  IF task.limit.skip # Undef /\ GreaterEq(attempts[task.name], task.limit.skip)
  THEN "false"
  ELSE LET deps == afterLoop(task.after, 1) IN
       IF deps # "pass" THEN deps
       ELSE IF task.hasReady /\ ~ready[task.name] THEN "false"
       ELSE "true"

\* Engine.available(task): "true", "false", or "throw" (unknown dependency)
available(task) ==
  IF task.limit.skip # Undef /\ GreaterEq(attempts[task.name], task.limit.skip)
  THEN "false"
  ELSE LET deps == afterLoop(task.after, 1) IN
       IF deps # "pass" THEN deps
       ELSE IF task.hasReady /\ ~ready[task.name] THEN "false"
       ELSE IF completed[task.name] THEN "false"
       ELSE "true"

\* find, were it to scan the task list from its end
findLast(i) ==
  LET found == {j \in i..Len(tasks) : available(tasks[j]) = "true"} IN
  IF \E j \in i..Len(tasks) : available(tasks[j]) = "throw" THEN 0 - 1
  ELSE IF found = {} THEN 0
  ELSE CHOOSE j \in found : \A k \in found : k <= j

\* tasks.find(available) from index i: an index, 0 (undefined) or -1 (throws)
RECURSIVE find(_)
find(i) ==
  IF i > Len(tasks) THEN 0
  ELSE LET a == available(tasks[i]) IN
       IF a = "throw" THEN 0 - 1
       ELSE IF a = "true" THEN i
       ELSE find(i + 1)

\* Engine.getNextTask()
getNextTask == find(1)

----------------------------------------------------------------------------
(* The wandering noncombats *)

wanderingNCs == {"Bath Time"}
environmentSpecificNCs == [n \in {"Even Tamer Than Usual"} |-> "indoor"]
zoneSpecificNCs == [n \in {"Nantucket Snapper"} |-> {"Outdoors"}]

\* the names a body run can leave in lastEncounter
Encounters == {"Bath Time", "Even Tamer Than Usual", "Some Monster"}

\* get("lastAdventure")?.environment, "undefined" for no location
lastEnvironment == IF lastAdventure = NoLocation THEN "undefined"
                   ELSE environment(lastAdventure)

lastEncounterWasWanderingNC ==
  LET last == lastEncounter IN
  IF last \in DOMAIN zoneSpecificNCs
  THEN lastAdventure \in zoneSpecificNCs[last]
  ELSE LET env == IF last \in DOMAIN environmentSpecificNCs
                  THEN environmentSpecificNCs[last] ELSE "undefined" IN
       IF env = lastEnvironment THEN TRUE
       ELSE last \in wanderingNCs

\* Engine.shouldRepeatAdv(task)
shouldRepeatAdv(task) ==
  task.do \in Locations /\ lastEncounterWasWanderingNC

----------------------------------------------------------------------------
(* Engine.execute, step by step *)

task == tasks[cur]

\* the statements of execute() in order; each names the step pc points at
ExecuteOrder ==
  << "guard", "acquireItems", "acquireEffects", "clone", "createOutfit",
     "customize", "dress", "setCombat", "setChoices", "resources", "prepare",
     "do", "while", "post", "markAttempt", "checkLimits" >>

IndexOf(step) == CHOOSE i \in 1..Len(ExecuteOrder) : ExecuteOrder[i] = step

\* After, were setCombat to come before dress
AfterCombatFirst(step) ==
  IF step = "checkLimits" THEN "idle"
  ELSE IF step = "customize" THEN "setCombat"
  ELSE IF step = "setCombat" THEN "dress"
  ELSE IF step = "dress" THEN "setChoices"
  ELSE ExecuteOrder[IndexOf(step) + 1]

\* the step that follows `step` in execute()
After(step) ==
  IF step = "checkLimits" THEN "idle" ELSE ExecuteOrder[IndexOf(step) + 1]

\* the steps that call into the game or into task code, and so can throw
Raising == {"guard", "acquireItems", "acquireEffects", "createOutfit",
            "customize", "dress", "setCombat", "setChoices", "resources",
            "prepare", "do", "post"}

Advance(step) ==
  /\ cur # 0
  /\ pc = step
  /\ pc' = After(step)
  /\ log' = Append(log, step)

RECURSIVE Sum(_, _)
Sum(f, S) == IF S = {} THEN 0
             ELSE LET x == CHOOSE x \in S : TRUE IN f[x] + Sum(f, S \ {x})
TotalCalls == Sum(calls, TaskNames)

\* execute(task) is called
Execute(i) ==
  /\ pc = "idle"
  /\ TotalCalls < MaxCalls
  /\ cur' = i
  /\ pc' = ExecuteOrder[1]
  /\ log' = <<>>
  /\ result' = "running"
  /\ calls' = [calls EXCEPT ![tasks[i].name] = @ + 1]
  /\ startAttempts' = attempts[tasks[i].name]
  /\ postcondition' = "undefined"
  /\ UNCHANGED <<tasks, attempts, world, threw, outfitVars, restVars>>

\* const postcondition = task.limit?.guard?.(): Guards.changed("lastEncounter")
Guard ==
  /\ cur # 0 /\ pc = "guard"
  /\ pc' = After("guard")
  /\ IF task.limit.guard
     THEN postcondition' = lastEncounter /\ log' = Append(log, "guard")
     ELSE UNCHANGED <<postcondition, log>>
  /\ UNCHANGED <<tasks, attempts, world, cur, result, hist, outfitVars, restVars>>

\* a step of the pipeline that leaves the engine's own state alone
Setup(step) ==
  /\ Advance(step)
  /\ UNCHANGED <<tasks, attempts, world, cur, postcondition, result, hist, outfitVars, restVars>>

AcquireItems == Setup("acquireItems")
AcquireEffects == Setup("acquireEffects")
CloneCombat == Setup("clone")
CreateOutfit == Setup("createOutfit")
Customize == Setup("customize")
SetCombat == Setup("setCombat")
SetChoices == Setup("setChoices")
PrepareResources == Setup("resources")
Prepare == Setup("prepare")

\* Engine.dress: setLocation(task.do), outfit.dress()
Dress == Setup("dress")

BodyRuns == Cardinality({k \in 1..Len(log) : log[k] = "do"})

\* this.do(task): one run of the task body
Do ==
  /\ Advance("do")
  /\ BodyRuns < MaxRuns
  /\ \E enc \in Encounters \cup {lastEncounter}, visited, spent \in BOOLEAN,
        done \in {completed[task.name], TRUE}, rdy \in BOOLEAN :
       /\ lastEncounter' = enc
       /\ ~task.hasReady => rdy = ready[task.name]
       /\ IF task.do \in Locations
          THEN /\ lastAdventure' = IF visited THEN task.do ELSE lastAdventure
               /\ visited \/ enc = lastEncounter
               /\ spent => /\ visited
                           /\ task.limit.turns # Undef
                           /\ turnsSpent[task.do] < MaxTurns
               /\ turnsSpent' = IF spent
                                THEN [turnsSpent EXCEPT ![task.do] = @ + 1]
                                ELSE turnsSpent
          ELSE /\ UNCHANGED <<lastAdventure, turnsSpent>>
               /\ ~visited /\ ~spent
       /\ completed' = [completed EXCEPT ![task.name] = done]
       /\ ready' = [ready EXCEPT ![task.name] = rdy]
  /\ UNCHANGED <<tasks, attempts, cur, postcondition, result, hist, outfitVars, restVars>>

\* while (this.shouldRepeatAdv(task)) { set("lastEncounter", ""); this.do(task) }
RepeatAdv ==
  /\ cur # 0 /\ pc = "while"
  /\ shouldRepeatAdv(task)
  /\ lastEncounter' = ""
  /\ pc' = "do"
  /\ log' = Append(log, "clear")
  /\ UNCHANGED <<tasks, attempts, completed, ready, lastAdventure, turnsSpent, cur, postcondition, result, hist, outfitVars, restVars>>

\* the loop ends
EndWhile ==
  /\ cur # 0 /\ pc = "while"
  /\ ~shouldRepeatAdv(task)
  /\ pc' = After("while")
  /\ UNCHANGED <<tasks, attempts, world, cur, postcondition, result, log, hist, outfitVars, restVars>>

Post == Setup("post")

\* markAttempt, were it to start the counter anew on every call
markAttemptAnew(t) == [attempts EXCEPT ![t.name] = 1]

\* Engine.markAttempt(task)
markAttempt(t) ==
  LET created == IF attempts[t.name] = Undef
                 THEN [attempts EXCEPT ![t.name] = 0] ELSE attempts
  IN [created EXCEPT ![t.name] = @ + 1]

MarkAttempt ==
  /\ Advance("markAttempt")
  /\ attempts' = markAttempt(task)
  /\ UNCHANGED <<tasks, world, cur, postcondition, result, hist, outfitVars, restVars>>

\* a limit value that is given and not 0
Truthy(n) == n # Undef /\ n # 0

\* checkLimits, were tries compared with > instead of >=
checkLimitsLate(t) ==
  IF ~t.limit.present THEN "ok"
  ELSE IF ~completed[t.name] /\ Truthy(t.limit.tries)
          /\ attempts[t.name] > t.limit.tries THEN "tries"
  ELSE "ok"

\* checkLimits, were the limits evaluated for a completed task as well
checkLimitsAlways(t) ==
  IF ~t.limit.present THEN "ok"
  ELSE IF Truthy(t.limit.tries)
          /\ GreaterEq(attempts[t.name], t.limit.tries) THEN "tries"
  ELSE IF Truthy(t.limit.soft)
          /\ GreaterEq(attempts[t.name], t.limit.soft) THEN "soft"
  ELSE IF t.limit.guard /\ ~(lastEncounter # postcondition) THEN "guard"
  ELSE "ok"

\* Engine.checkLimits(task, postcondition): the error raised, or "ok"
checkLimits(t) ==
  IF ~t.limit.present THEN "ok"
  ELSE IF ~completed[t.name] /\ Truthy(t.limit.tries)
          /\ GreaterEq(attempts[t.name], t.limit.tries) THEN "tries"
  ELSE IF ~completed[t.name] /\ Truthy(t.limit.soft)
          /\ GreaterEq(attempts[t.name], t.limit.soft) THEN "soft"
  ELSE IF ~completed[t.name] /\ Truthy(t.limit.turns) /\ t.do \in Locations
          /\ turnsSpent[t.do] >= t.limit.turns THEN "turns"
  ELSE IF ~completed[t.name] /\ t.limit.unready /\ t.hasReady /\ ready[t.name]
       THEN "unready"
  ELSE IF ~completed[t.name] /\ t.limit.completed THEN "completed"
  ELSE IF t.limit.guard /\ ~(lastEncounter # postcondition) THEN "guard"
  ELSE "ok"

CheckLimits ==
  /\ Advance("checkLimits")
  /\ result' = checkLimits(task)
  /\ UNCHANGED <<tasks, attempts, world, cur, postcondition, hist, outfitVars, restVars>>

\* a step throws: execute() is left at once
Raise ==
  /\ cur # 0 /\ pc \in Raising
  /\ pc = "guard" => task.limit.guard
  /\ pc' = "idle"
  /\ result' = "raised"
  /\ log' = Append(log, "throw")
  /\ threw' = threw \cup {task.name}
  /\ UNCHANGED <<tasks, attempts, world, cur, postcondition, calls, startAttempts, outfitVars, restVars>>

----------------------------------------------------------------------------
(* Outfit: src/outfit.ts, and its boolean-returning build unnamed/part_005 *)

\* JavaScript's undefined, for items, slots, familiars and modes
Absent == "undefined"

\* "verbose" is src/outfit.ts (EquipResult), "main" is unnamed/part_005
Builds == {"verbose", "main"}

\* the longest sequence of calls made on one outfit
MaxOps == 2

\* outfitSlots as Slots (offhand is off-hand, famequip is familiar);
\* back, shirt and pants are left out of the universe
outfitSlots ==
  << "hat", "weapon", "off-hand", "acc1", "acc2", "acc3", "familiar" >>
SlotSet == {outfitSlots[k] : k \in 1..Len(outfitSlots)}
accSlots == << "acc1", "acc2", "acc3" >>
riderSlots == {"buddy-bjorn", "crown-of-thrones"}

Items == { "none", "helmet", "fez", "tiara", "sword", "bow", "staff",
           "shield", "ring", "charm", "leash" }
Familiars ==
  {"none", "Disembodied Hand", "Left-Hand Man", "Mosquito", "Parrot"}

\* kolmafia's toSlot(item)
toSlot(item) ==
  CASE item \in {"helmet", "fez", "tiara"} -> "hat"
    [] item \in {"sword", "bow", "staff"} -> "weapon"
    [] item = "shield" -> "off-hand"
    [] item \in {"ring", "charm"} -> "acc1"
    [] item = "leash" -> "familiar"
    [] OTHER -> "none"

\* the player's inventory: copies owned of each item
owned ==
  [i \in Items |-> IF i \in {"sword", "ring", "charm"} THEN 2
                   ELSE IF i \in {"none", "fez"} THEN 0 ELSE 1]

\* libram's have(item, n), have(familiar), have(skill)
have(item, n) == owned[item] >= n
haveFamiliar(f) == f \in {"Disembodied Hand", "Left-Hand Man", "Mosquito"}
haveDoubleFisted == TRUE

\* booleanModifier(item, "Single Equip")
singleEquip(item) == item = "charm"

\* kolmafia's canEquip(item) and canEquip(familiar, item)
canEquip(item) == item # "tiara"
canEquipFamiliar(f, item) ==
  CASE toSlot(item) = "familiar" -> f # "none"
    [] toSlot(item) = "weapon" -> f = "Disembodied Hand"
    [] toSlot(item) = "off-hand" -> f = "Left-Hand Man"
    [] OTHER -> FALSE

\* kolmafia's weaponHands(item) and weaponType(item)
weaponHands(item) ==
  CASE item \in {"sword", "bow"} -> 1
    [] item = "staff" -> 2
    [] OTHER -> 0
weaponType(item) ==
  CASE item = "sword" -> "Muscle"
    [] item = "bow" -> "Moxie"
    [] item = "staff" -> "Mysticality"
    [] OTHER -> "none"

\* the modes of the model: parka, and the two parts of retrocape
NoModes ==
  [parka |-> Absent, retrocape |-> FALSE, retro0 |-> Absent, retro1 |-> Absent]

\* new Outfit()
NewOutfit ==
  [ equips |-> [s \in SlotSet |-> Absent],
    familiar |-> Absent,
    riders |-> [s \in riderSlots |-> Absent],
    modes |-> NoModes,
    avoid |-> {} ]

\* a call's outcome ("success", "fail" or "throw") and the outfit it leaves
R(res, o) == [res |-> res, o |-> o]

set(o, slot, item) == [o EXCEPT !.equips[slot] = item]
has(o, slot) == o.equips[slot] # Absent

\* in src/outfit.ts equipItem calls its four methods detached from the
\* outfit (equip_method(item, slot)): there `this` is undefined
bound(b) == b = "main"

\* Outfit.equippedAmount(item)
equippedAmount(o, item) == Cardinality({s \in SlotSet : o.equips[s] = item})

\* isAvailable, were it to test the avoid list only
isAvailableUncounted(o, item) == item \notin o.avoid

\* Outfit.isAvailable(item)
isAvailable(o, item) ==
  /\ item \notin o.avoid
  /\ have(item, equippedAmount(o, item) + 1)
  /\ ~(singleEquip(item) /\ equippedAmount(o, item) > 0)

\* haveEquipped, were it never to find the item
haveEquippedNever(o, item, slot) == FALSE

\* Outfit.haveEquipped(item, slot)
haveEquipped(o, item, slot) ==
  IF slot = Absent THEN equippedAmount(o, item) > 0
  ELSE o.equips[slot] = item

\* an equipItemNone that empties a slot already assigned
equipItemNoneOver(o, item, slot) ==
  IF item # "none" THEN R("fail", o)
  ELSE IF slot = Absent THEN R("success", o)
  ELSE R("success", set(o, slot, item))

\* Outfit.equipItemNone(item, slot)
equipItemNone(o, item, slot) ==
  IF item # "none" THEN R("fail", o)
  ELSE IF slot = Absent THEN R("success", o)
  ELSE IF has(o, slot) THEN R("fail", o)
  ELSE R("success", set(o, slot, item))

\* weaponsCompatible(weapon, offhand) of part_005
weaponsCompatible(weapon, offhand) ==
  IF weapon \in {Absent, "none"} THEN TRUE
  ELSE IF offhand \in {Absent, "none"} THEN TRUE
  ELSE IF toSlot(offhand) # "weapon" THEN TRUE
  ELSE LET weaponStat == weaponType(weapon)
           offhandStat == weaponType(offhand)
       IN /\ ~( weaponStat = "Moxie"
                /\ offhandStat \in {"Mysticality", "Muscle"} )
          /\ ~( offhandStat = "Moxie"
                /\ weaponStat \in {"Mysticality", "Muscle"} )

\* Outfit.equipNonAccessory(item, slot); the weapon case is part_005's
equipNonAccessory(b, o, item, slot) ==
  IF toSlot(item) \in {"acc1", "acc2", "acc3"} THEN R("fail", o)
  ELSE IF slot # Absent /\ slot # toSlot(item) THEN R("fail", o)
  ELSE IF ~bound(b) THEN R("throw", o)
  ELSE IF has(o, toSlot(item)) THEN R("fail", o)
  ELSE IF /\ toSlot(item) = "off-hand" /\ has(o, "weapon")
          /\ weaponHands(o.equips["weapon"]) # 1 THEN R("fail", o)
  ELSE IF /\ toSlot(item) = "familiar" /\ o.familiar # Absent
          /\ ~canEquipFamiliar(o.familiar, item) THEN R("fail", o)
  ELSE IF /\ toSlot(item) = "weapon" /\ b = "main"
          /\ ~weaponsCompatible(item, o.equips["off-hand"]) THEN R("fail", o)
  ELSE IF toSlot(item) # "familiar" /\ ~canEquip(item) THEN R("fail", o)
  ELSE R("success", set(o, toSlot(item), item))

\* Outfit.equipAccessory(item, slot)
equipAccessory(b, o, item, slot) ==
  IF slot \notin {Absent, "acc1", "acc2", "acc3"} THEN R("fail", o)
  ELSE IF toSlot(item) # "acc1" THEN R("fail", o)
  ELSE IF ~canEquip(item) THEN R("fail", o)
  ELSE IF ~bound(b) THEN R("throw", o)
  ELSE IF slot = Absent
       THEN LET empty == {k \in 1..Len(accSlots) : ~has(o, accSlots[k])} IN
            IF empty = {} THEN R("fail", o)
            ELSE LET k == CHOOSE x \in empty : \A y \in empty : x <= y IN
                 R("success", set(o, accSlots[k], item))
  ELSE IF has(o, slot) THEN R("fail", o)
  ELSE R("success", set(o, slot, item))

\* Outfit.equipUsingDualWield(item, slot); the last test is part_005's
equipUsingDualWield(b, o, item, slot) ==
  IF slot \notin {Absent, "off-hand"} THEN R("fail", o)
  ELSE IF toSlot(item) # "weapon" THEN R("fail", o)
  ELSE IF ~bound(b) THEN R("throw", o)
  ELSE IF has(o, "weapon") /\ weaponHands(o.equips["weapon"]) # 1
       THEN R("fail", o)
  ELSE IF has(o, "off-hand") THEN R("fail", o)
  ELSE IF ~haveDoubleFisted THEN R("fail", o)
  ELSE IF weaponHands(item) # 1 THEN R("fail", o)
  ELSE IF ~canEquip(item) THEN R("fail", o)
  ELSE IF b = "main" /\ ~weaponsCompatible(o.equips["weapon"], item)
       THEN R("fail", o)
  ELSE R("success", set(o, "off-hand", item))

\* Outfit.getHoldingFamiliar(item)
getHoldingFamiliar(item) ==
  CASE toSlot(item) = "weapon" -> "Disembodied Hand"
    [] toSlot(item) = "off-hand" -> "Left-Hand Man"
    [] OTHER -> Absent

\* equipFamiliar, were it to leave out the test of the riders
equipFamiliarRiding(o, familiar) ==
  IF familiar = o.familiar THEN R("success", o)
  ELSE IF o.familiar # Absent THEN R("fail", o)
  ELSE IF familiar # "none" /\ ~haveFamiliar(familiar) THEN R("fail", o)
  ELSE LET item == o.equips["familiar"] IN
       IF item # Absent /\ item # "none" /\ ~canEquipFamiliar(familiar, item)
       THEN R("fail", o)
       ELSE R("success", [o EXCEPT !.familiar = familiar])

\* Outfit.equipFamiliar(familiar)
equipFamiliar(o, familiar) ==
  IF familiar = o.familiar THEN R("success", o)
  ELSE IF o.familiar # Absent THEN R("fail", o)
  ELSE IF familiar # "none" /\ ~haveFamiliar(familiar) THEN R("fail", o)
  ELSE IF familiar # "none" /\ \E s \in riderSlots : o.riders[s] = familiar
       THEN R("fail", o)
  ELSE LET item == o.equips["familiar"] IN
       IF item # Absent /\ item # "none" /\ ~canEquipFamiliar(familiar, item)
       THEN R("fail", o)
       ELSE R("success", [o EXCEPT !.familiar = familiar])

\* Outfit.equipUsingFamiliar(item, slot)
equipUsingFamiliar(b, o, item, slot) ==
  IF slot \notin {Absent, "familiar"} THEN R("fail", o)
  ELSE IF ~bound(b) THEN R("throw", o)
  ELSE IF getHoldingFamiliar(item) = Absent THEN R("fail", o)
  ELSE IF has(o, "familiar") THEN R("fail", o)
  ELSE IF singleEquip(item) THEN R("fail", o)
  ELSE LET try_familiar == equipFamiliar(o, getHoldingFamiliar(item)) IN
       IF try_familiar.res # "success" THEN R("fail", o)
       ELSE R("success", set(try_familiar.o, "familiar", item))

\* Outfit.equipItem(item, slot)
equipItem(b, o, item, slot) ==
  IF haveEquipped(o, item, slot) THEN R("success", o)
  ELSE IF item = "none" THEN equipItemNone(o, item, slot)
  ELSE IF ~isAvailable(o, item) THEN R("fail", o)
  ELSE LET nonAccessory == equipNonAccessory(b, o, item, slot)
           accessory == equipAccessory(b, o, item, slot)
           dualWield == equipUsingDualWield(b, o, item, slot)
           usingFamiliar == equipUsingFamiliar(b, o, item, slot)
       IN IF nonAccessory.res # "fail" THEN nonAccessory
          ELSE IF accessory.res # "fail" THEN accessory
          ELSE IF dualWield.res # "fail" THEN dualWield
          ELSE usingFamiliar

\* equipRider, were it to look at neither the other rider nor the familiar
equipRiderUnchecked(o, target, slot) ==
  IF o.riders[slot] # Absent
  THEN IF target = o.riders[slot] THEN R("success", o) ELSE R("fail", o)
  ELSE IF haveFamiliar(target)
       THEN R("success", [o EXCEPT !.riders[slot] = target])
       ELSE R("fail", o)

\* Outfit.equipRider(target, slot), for a single target
equipRider(o, target, slot) ==
  LET current == o.riders[slot]
      otherRiders == {o.riders[key] : key \in riderSlots \ {slot}}
  IN IF current # Absent
     THEN IF target = current THEN R("success", o) ELSE R("fail", o)
     ELSE IF /\ haveFamiliar(target) /\ o.familiar # target
             /\ target \notin otherRiders
          THEN R("success", [o EXCEPT !.riders[slot] = target])
          ELSE R("fail", o)

\* a mode given as undefined: the key is there, the value is not
ExplicitUndefined == "explicit undefined"

\* { ...theirs, ...mine } for one key, and mine ?? theirs for a retrocape
\* part: a key of mine wins even when its value is undefined
Either(mine, theirs) == IF mine # Absent THEN mine ELSE theirs
\* mine && theirs && mine !== theirs
Differ(mine, theirs) ==
  /\ mine \notin {Absent, ExplicitUndefined}
  /\ theirs \notin {Absent, ExplicitUndefined}
  /\ mine # theirs

\* Outfit.setModesVerbose(modes) (setModes of part_005)
setModes(o, modes) ==
  LET mine == o.modes
      both == mine.retrocape /\ modes.retrocape
      reasons ==
        \/ Differ(mine.parka, modes.parka)
        \/ both /\ Differ(mine.retro0, modes.retro0)
        \/ both /\ Differ(mine.retro1, modes.retro1)
      merged ==
        [ parka |-> Either(mine.parka, modes.parka),
          retrocape |-> mine.retrocape \/ modes.retrocape,
          retro0 |-> IF both THEN Either(mine.retro0, modes.retro0)
                     ELSE IF mine.retrocape THEN mine.retro0
                     ELSE modes.retro0,
          retro1 |-> IF both THEN Either(mine.retro1, modes.retro1)
                     ELSE IF mine.retrocape THEN mine.retro1
                     ELSE modes.retro1 ]
  IN R(IF reasons THEN "fail" ELSE "success", [o EXCEPT !.modes = merged])

\* an OutfitSpec: items by slot, equip, familiar, avoid, modes, riders
OutfitSpec(slots, equip, familiar, avoid, hasModes, modes, bjorn, crown) ==
  [ slots |-> slots, equip |-> equip, familiar |-> familiar, avoid |-> avoid,
    hasModes |-> hasModes, modes |-> modes, bjorn |-> bjorn, crown |-> crown ]

NoSlots == [s \in SlotSet |-> Absent]
Parka(mode) == [NoModes EXCEPT !.parka = mode]
Retrocape(superhero, instructions) ==
  [NoModes EXCEPT !.retrocape = TRUE, !.retro0 = superhero,
                  !.retro1 = instructions]

\* the specs the model equips
Specs ==
  { OutfitSpec([NoSlots EXCEPT !["hat"] = "helmet"], <<>>, "Mosquito", {},
               FALSE, NoModes, Absent, Absent),
    OutfitSpec([NoSlots EXCEPT !["hat"] = "fez", !["weapon"] = "sword"],
               <<>>, "Mosquito", {}, FALSE, NoModes, Absent, Absent),
    OutfitSpec(NoSlots, <<"sword", "shield", "bow">>, Absent, {},
               FALSE, NoModes, Absent, Absent),
    OutfitSpec(NoSlots, <<>>, "Parrot", {}, TRUE, Parka("kachungasaur"),
               "Mosquito", Absent),
    OutfitSpec(NoSlots, <<>>, Absent, {}, TRUE, Parka("dilophosaur"),
               Absent, "Mosquito"),
    OutfitSpec([NoSlots EXCEPT !["familiar"] = "leash"], <<"ring">>, Absent,
               {"helmet"}, FALSE, NoModes, Absent, Absent),
    OutfitSpec([NoSlots EXCEPT !["acc1"] = "ring"],
               <<"charm", "ring", "staff">>, Absent, {}, FALSE, NoModes,
               Absent, Absent),
    OutfitSpec(NoSlots, <<"fez">>, "Left-Hand Man", {}, TRUE,
               Retrocape("heck", Absent), Absent, "Parrot") }

\* the sub-placements of equipSpec(spec), in the order it makes them
SpecSteps(spec) ==
  LET given(s) == spec.slots[s] # Absent
      chosen == SelectSeq(outfitSlots, given)
      Step(kind, thing, slot) == [kind |-> kind, thing |-> thing, slot |-> slot]
  IN [k \in 1..Len(chosen) |-> Step("slot", spec.slots[chosen[k]], chosen[k])]
     \o [k \in 1..Len(spec.equip) |-> Step("equip", spec.equip[k], Absent)]
     \o (IF spec.familiar # Absent
         THEN <<Step("familiar", spec.familiar, Absent)>> ELSE <<>>)
     \o <<Step("avoid", Absent, Absent)>>
     \o (IF spec.hasModes THEN <<Step("modes", Absent, Absent)>> ELSE <<>>)
     \o (IF spec.bjorn # Absent
         THEN <<Step("rider", spec.bjorn, "buddy-bjorn")>> ELSE <<>>)
     \o (IF spec.crown # Absent
         THEN <<Step("rider", spec.crown, "crown-of-thrones")>> ELSE <<>>)

\* one sub-placement of equipSpec
SpecStep(b, o, spec, st) ==
  CASE st.kind \in {"slot", "equip"} -> equipItem(b, o, st.thing, st.slot)
    [] st.kind = "familiar" -> equipFamiliar(o, st.thing)
    [] st.kind = "avoid" ->
         R("success", [o EXCEPT !.avoid = @ \cup spec.avoid])
    [] st.kind = "modes" -> setModes(o, spec.modes)
    [] st.kind = "rider" -> equipRider(o, st.thing, st.slot)

\* the loop of equipSpec from its i-th sub-placement; subs is the history of
\* the sub-placements made and their outcomes
RECURSIVE SpecLoop(_, _, _, _, _)
SpecLoop(b, o, spec, i, subs) ==
  LET steps == SpecSteps(spec) IN
  IF i > Len(steps)
  THEN [ res |-> IF \E k \in 1..Len(subs) : subs[k].res = "fail"
                 THEN "fail" ELSE "success",
         o |-> o, subs |-> subs ]
  ELSE LET r == SpecStep(b, o, spec, steps[i])
           sub == [step |-> steps[i], res |-> r.res]
       IN IF r.res = "throw"
          THEN [res |-> "throw", o |-> r.o, subs |-> Append(subs, sub)]
          ELSE SpecLoop(b, r.o, spec, i + 1, Append(subs, sub))

\* Outfit.equipSpec(spec)
equipSpec(b, o, spec) == SpecLoop(b, o, spec, 1, <<>>)

Call(op, r, subs) ==
  /\ ops < MaxOps
  /\ ops' = ops + 1
  /\ outfit' = r.o
  /\ lastEquip' = [op |-> op, res |-> r.res, subs |-> subs]
  /\ UNCHANGED <<build, engineVars, restVars>>

\* outfit.equip(item, slot)
CallEquipItem(item, slot) ==
  Call("item", equipItem(build, outfit, item, slot), <<>>)

\* outfit.equip(familiar)
CallEquipFamiliar(familiar) ==
  Call("familiar", equipFamiliar(outfit, familiar), <<>>)

\* outfit.equip(spec)
CallEquipSpec(spec) ==
  LET r == equipSpec(build, outfit, spec) IN Call("spec", r, r.subs)

\* outfit.bjornify(target)
CallBjornify(target) ==
  Call("rider", equipRider(outfit, target, "buddy-bjorn"), <<>>)

\* outfit.enthrone(target)
CallEnthrone(target) ==
  Call("rider", equipRider(outfit, target, "crown-of-thrones"), <<>>)

\* outfit.setModes(modes)
CallSetModes(modes) == Call("modes", setModes(outfit, modes), <<>>)

\* the loop of equip(things, slot) over an array from its i-th entry: with
\* a slot it stops at the first entry that is equipped ("first"), without a
\* slot at the first that is not ("every"); subs is the history of the
\* entries tried and their outcomes
RECURSIVE ArrayLoop(_, _, _, _, _, _, _)
ArrayLoop(b, o, things, slot, mode, i, subs) ==
  IF i > Len(things)
  THEN [ res |-> IF mode = "first" /\ Len(things) > 0
                 THEN "fail" ELSE "success",
         o |-> o, subs |-> subs ]
  ELSE LET r == equipItem(b, o, things[i], slot)
           sub == [thing |-> things[i], res |-> r.res]
           stop == IF mode = "first" THEN "success" ELSE "fail"
       IN IF r.res \in {"throw", stop}
          THEN [res |-> r.res, o |-> r.o, subs |-> Append(subs, sub)]
          ELSE ArrayLoop(b, r.o, things, slot, mode, i + 1,
                         Append(subs, sub))

\* equipArray, were an array with a slot to need every entry as well
equipArrayEvery(b, o, things, slot) ==
  ArrayLoop(b, o, things, slot, "every", 1, <<>>)

\* Outfit.equipVerbose(thing, slot) for an array of items
\* (Outfit.equip and Outfit.equipFirst of part_005)
equipArray(b, o, things, slot) ==
  ArrayLoop(b, o, things, slot,
            IF slot # Absent THEN "first" ELSE "every", 1, <<>>)

\* the arrays the model equips
ItemArrays ==
  { <<>>, <<"fez", "helmet">>, <<"helmet", "tiara">>,
    <<"tiara", "fez">>, <<"sword", "sword", "shield">>,
    <<"ring", "charm", "fez", "leash">>, <<"staff", "bow", "sword">> }

\* outfit.equip(things, slot)
CallEquipArray(things, slot) ==
  LET r == equipArray(build, outfit, things, slot) IN
  /\ ops < MaxOps
  /\ ops' = ops + 1
  /\ outfit' = r.o
  /\ lastEquip' = [ op |-> "array", res |-> r.res, subs |-> r.subs,
                    things |-> things, slot |-> slot, before |-> outfit ]
  /\ UNCHANGED <<build, engineVars, restVars>>

\* Outfit.equipFirst(things, slot)
equipFirst(b, o, things, slot) ==
  ArrayLoop(b, o, things, slot, "first", 1, <<>>)

\* outfit.equipFirst(things, slot)
CallEquipFirst(things, slot) ==
  LET r == equipFirst(build, outfit, things, slot) IN
  /\ ops < MaxOps
  /\ ops' = ops + 1
  /\ outfit' = r.o
  /\ lastEquip' = [ op |-> "first", res |-> r.res, subs |-> r.subs,
                    things |-> things, slot |-> slot, before |-> outfit ]
  /\ UNCHANGED <<build, engineVars, restVars>>

\* Outfit.clone(), as far as equipping an item reads the copy
clone(o) == o

\* Outfit.canEquip(item, slot): the outcome of equip on a clone
canEquipItem(b, o, item, slot) == equipItem(b, clone(o), item, slot).res

\* Outfit.tryEquip(item, slot)
tryEquip(b, o, item, slot) ==
  LET can == canEquipItem(b, o, item, slot) IN
  IF can = "success" THEN equipItem(b, o, item, slot) ELSE R(can, o)

\* the items and slots tryEquip and equipFirst are called with
TryItems == {"fez", "helmet", "sword", "charm", "shield"}
TrySlots == {Absent, "hat", "off-hand", "acc2"}
FirstArrays ==
  {<<>>, <<"fez", "helmet">>, <<"staff", "bow", "sword">>,
   <<"ring", "charm", "fez", "leash">>}

\* outfit.tryEquip(item, slot)
CallTryEquip(item, slot) ==
  Call("try", tryEquip(build, outfit, item, slot), <<>>)

\* Outfit.canEquip(spec): equip on a clone.  clone() copies the modes
\* object shallowly (result.modes = { ...this.modes }), so the clone's
\* retrocape array, if the outfit has one, is the outfit's own, and
\* setModesVerbose fills its undefined parts in place
canEquipSpec(b, o, spec) ==
  LET r == equipSpec(b, clone(o), spec) IN
  [ res |-> r.res,
    o |-> IF o.modes.retrocape
          THEN [o EXCEPT !.modes.retro0 = r.o.modes.retro0,
                         !.modes.retro1 = r.o.modes.retro1]
          ELSE o ]

\* outfit.canEquip(spec)
CallCanEquipSpec(spec) ==
  LET r == canEquipSpec(build, outfit, spec) IN
  /\ ops < MaxOps
  /\ ops' = ops + 1
  /\ outfit' = r.o
  /\ lastEquip' = [ op |-> "can", res |-> r.res, subs |-> <<>>,
                    before |-> outfit ]
  /\ UNCHANGED <<build, engineVars, restVars>>

ModeInputs ==
  { Parka("kachungasaur"), Parka("dilophosaur"), Retrocape("heck", Absent),
    Retrocape(Absent, "hold"), Retrocape("vampire", "hold") }

InitOutfitIdle ==
  /\ build = "unused"
  /\ outfit = "unused"
  /\ ops = 0
  /\ lastEquip = "unused"

InitCombatIdle ==
  /\ heap = "unused"
  /\ strategy = "unused"
  /\ clones = <<>>
  /\ combatOps = 0
  /\ lastCombat = "unused"

InitDressIdle ==
  /\ game = "unused"
  /\ dresses = 0
  /\ lastDress = "unused"

InitEffectsIdle ==
  /\ myEffects = <<>>
  /\ mariachi = FALSE
  /\ acquires = 0
  /\ lastAcquire = "unused"

InitItemsIdle ==
  /\ inventory = "unused"
  /\ itemCalls = 0
  /\ lastItems = "unused"

InitLifeIdle ==
  /\ cachedCcsContents = "unused"
  /\ propertyManager = "unused"
  /\ properties = "unused"
  /\ autoAttack = 0
  /\ lifeOps = 0
  /\ lastLife = "unused"
  /\ ccs = "unused"

InitRunIdle == run = "unused"

InitTasksIdle ==
  /\ quests = "unused"
  /\ lastTasks = "unused"

InitCurrentIdle == player = "unused"

InitRestIdle ==
  /\ InitCombatIdle
  /\ InitDressIdle
  /\ InitEffectsIdle
  /\ InitItemsIdle
  /\ InitLifeIdle
  /\ InitRunIdle
  /\ InitTasksIdle
  /\ InitCurrentIdle

\* the engine after new Engine(tasks)
InitEngine ==
  /\ tasks \in TaskLists
  /\ attempts = [n \in TaskNames |-> Undef]
  /\ completed = [n \in TaskNames |-> FALSE]
  /\ ready \in [TaskNames -> BOOLEAN]
  /\ \A i \in 1..Len(tasks) : ~tasks[i].hasReady => ready[tasks[i].name]
  /\ lastEncounter = ""
  /\ lastAdventure = NoLocation
  /\ turnsSpent = [l \in Locations |-> 0]
  /\ cur = 0
  /\ pc = "idle"
  /\ postcondition = "undefined"
  /\ result = "none"
  /\ log = <<>>
  /\ calls = [n \in TaskNames |-> 0]
  /\ threw = {}
  /\ startAttempts = Undef

Init ==
  /\ InitEngine
  /\ InitOutfitIdle
  /\ InitRestIdle

Next ==
  \/ \E i \in 1..Len(tasks) : Execute(i)
  \/ Guard
  \/ AcquireItems
  \/ AcquireEffects
  \/ CloneCombat
  \/ CreateOutfit
  \/ Customize
  \/ Dress
  \/ SetCombat
  \/ SetChoices
  \/ PrepareResources
  \/ Prepare
  \/ Do
  \/ RepeatAdv
  \/ EndWhile
  \/ Post
  \/ MarkAttempt
  \/ CheckLimits
  \/ Raise

Spec == Init /\ [][Next]_vars

\* an engine that is not running, beside the outfit under construction
InitEngineIdle ==
  /\ tasks = <<>>
  /\ attempts = [n \in TaskNames |-> Undef]
  /\ completed = [n \in TaskNames |-> FALSE]
  /\ ready = [n \in TaskNames |-> TRUE]
  /\ lastEncounter = ""
  /\ lastAdventure = NoLocation
  /\ turnsSpent = [l \in Locations |-> 0]
  /\ cur = 0
  /\ pc = "idle"
  /\ postcondition = "undefined"
  /\ result = "none"
  /\ log = <<>>
  /\ calls = [n \in TaskNames |-> 0]
  /\ threw = {}
  /\ startAttempts = Undef

InitOutfit ==
  /\ InitEngineIdle
  /\ InitRestIdle
  /\ build \in Builds
  /\ outfit = NewOutfit
  /\ ops = 0
  /\ lastEquip = [op |-> "new", res |-> "success", subs |-> <<>>]

NextOutfit ==
  \/ \E item \in Items, slot \in SlotSet \cup {Absent} :
       CallEquipItem(item, slot)
  \/ \E familiar \in Familiars : CallEquipFamiliar(familiar)
  \/ \E spec \in Specs : CallEquipSpec(spec)
  \/ \E things \in ItemArrays, slot \in SlotSet \cup {Absent} :
       CallEquipArray(things, slot)
  \/ \E things \in FirstArrays, slot \in TrySlots :
       CallEquipFirst(things, slot)
  \/ \E item \in TryItems, slot \in TrySlots : CallTryEquip(item, slot)
  \/ \E spec \in Specs : CallCanEquipSpec(spec)
  \/ \E target \in Familiars : CallBjornify(target)
  \/ \E target \in Familiars : CallEnthrone(target)
  \/ \E modes \in ModeInputs : CallSetModes(modes)

SpecOutfit == InitOutfit /\ [][NextOutfit]_vars

----------------------------------------------------------------------------
(* CombatStrategy, CompressedMacro and CombatResources (src/combat.ts) *)

MaxCombatOps == 2
MaxClones == 1

\* Monster.id of the monsters used
Monsters == 1..3
CombatActions == {"kill", "banish"}

\* Array.prototype.join
RECURSIVE join(_, _)
join(parts, sep) ==
  IF parts = <<>> THEN ""
  ELSE IF Len(parts) = 1 THEN parts[1]
  ELSE parts[1] \o sep \o join(Tail(parts), sep)

\* libram's Macro is the list of its components; toString joins them
toString(macro) == join(macro, ";")

RECURSIVE flatten(_)
flatten(lists) ==
  IF lists = <<>> THEN <<>> ELSE lists[1] \o flatten(Tail(lists))

\* Macro.step(...nextSteps): the components of every step, empty ones dropped
step(macro, nextSteps) ==
  macro \o SelectSeq(flatten(nextSteps), LAMBDA c : c # "")

\* Macro.if_(condition, ifTrue), ifTrue being a macro text
if_(macro, condition, ifTrue) ==
  step(macro, << <<"if " \o condition>>, <<ifTrue>>, <<"endif">> >>)

\* a DelayedMacro: a Macro, or a function that returns one
Now(macro) == [thunk |-> FALSE, macro |-> macro]
Later(macro) == [thunk |-> TRUE, macro |-> macro]

undelay(macro) == macro.macro

RECURSIVE mapUndelay(_)
mapUndelay(list) ==
  IF list = <<>> THEN <<>>
  ELSE <<undelay(list[1])>> \o mapUndelay(Tail(list))

\* a JavaScript Map: its entries in insertion order
mapHas(map, key) == \E i \in 1..Len(map) : map[i].key = key

mapGet(map, key) ==
  map[CHOOSE i \in 1..Len(map) : map[i].key = key].value

mapSet(map, key, value) ==
  IF mapHas(map, key)
  THEN [i \in 1..Len(map) |->
          IF map[i].key = key THEN [key |-> key, value |-> value] ELSE map[i]]
  ELSE Append(map, [key |-> key, value |-> value])

\* an add that gives every monster an entry of its own
CompressedMacro_addApart(components, monster, macro) ==
  LET macro_text == toString(macro)
  IN IF Len(macro_text) = 0 THEN components
     ELSE Append(components, [key |-> macro_text, value |-> <<monster>>])

\* CompressedMacro.add(monster, macro) on the components map
CompressedMacro_add(components, monster, macro) ==
  LET macro_text == toString(macro)
  IN IF Len(macro_text) = 0 THEN components
     ELSE IF ~mapHas(components, macro_text)
          THEN mapSet(components, macro_text, <<monster>>)
          ELSE mapSet(components, macro_text,
                      Append(mapGet(components, macro_text), monster))

RECURSIVE monsterids(_)
monsterids(monsters) ==
  IF monsters = <<>> THEN <<>>
  ELSE <<"monsterid " \o ToString(monsters[1])>> \o monsterids(Tail(monsters))

RECURSIVE CompressedLoop(_, _, _)
CompressedLoop(components, i, macro) ==
  IF i > Len(components) THEN macro
  ELSE LET condition == join(monsterids(components[i].value), " || ")
       IN CompressedLoop(components, i + 1,
                         if_(macro, condition, components[i].key))

\* CompressedMacro.compile()
CompressedMacro_compile(components) == CompressedLoop(components, 1, <<>>)

\* a CombatResource's do: an Item, a Skill or a Macro
DoItem(name) == [kind |-> "item", name |-> name, macro |-> <<>>]
DoSkill(name) == [kind |-> "skill", name |-> name, macro |-> <<>>]
DoMacro(macro) == [kind |-> "macro", name |-> "", macro |-> macro]

\* CombatResources.getMacro(action): <<>> is undefined, <<m>> the macro m
getMacro(resources, action) ==
  IF ~mapHas(resources, action) THEN <<>>
  ELSE LET resource == mapGet(resources, action)
       IN IF resource.kind = "item" THEN << <<"use " \o resource.name>> >>
          ELSE IF resource.kind = "skill"
               THEN << <<"skill " \o resource.name>> >>
               ELSE <<resource.macro>>

\* the targets an ActionDefaults generator is called with
OfMonster(monster) == [kind |-> "monster", id |-> monster]
OfLocation(location) == [kind |-> "location", id |-> location]
NoTarget == [kind |-> "undefined", id |-> 0]

\* the generators of ActionDefaults used here
generate(generator, target) ==
  IF generator = "attack" THEN <<"attack">>
  ELSE IF generator = "by target"
       THEN IF target.kind = "monster" /\ target.id = 1
            THEN <<"skill saucestorm">>
            ELSE IF target.kind = "location" THEN <<"runaway">>
                 ELSE <<"attack">>
       ELSE <<>>

NoDefaults == [defined |-> FALSE, map |-> <<>>]
Defaults(map) == [defined |-> TRUE, map |-> map]

\* resources.getMacro(action) ?? defaults?.[action]?.(target)
resolve(resources, defaults, action, target) ==
  IF getMacro(resources, action) # <<>> THEN getMacro(resources, action)
  ELSE IF defaults.defined /\ mapHas(defaults.map, action)
       THEN <<generate(mapGet(defaults.map, action), target)>>
       ELSE <<>>

\* new CombatStrategy(): its fields; macros and actions reference their Maps
NoList == [defined |-> FALSE, list |-> <<>>]

NewStrategy ==
  [ this |-> [ starting_macro |-> <<>>, default_macro |-> NoList,
               macros |-> "macros 1", default_action |-> <<>>,
               actions |-> "actions 1", methods |-> TRUE ],
    heap |-> [ref \in {"macros 1", "actions 1"} |-> <<>>] ]

\* Array.prototype.unshift or push
insert(list, value, prepend) ==
  IF prepend THEN <<value>> \o list ELSE Append(list, value)

NoMonsters == [given |-> FALSE, list |-> <<>>]
These(list) == [given |-> TRUE, list |-> list]

RECURSIVE MacroLoop(_, _, _, _, _)
MacroLoop(map, macro, monsters, prepend, i) ==
  IF i > Len(monsters) THEN map
  ELSE LET has0 == IF mapHas(map, monsters[i]) THEN map
                   ELSE mapSet(map, monsters[i], <<>>)
           next == mapSet(has0, monsters[i],
                          insert(mapGet(has0, monsters[i]), macro, prepend))
       IN MacroLoop(next, macro, monsters, prepend, i + 1)

\* CombatStrategy.macro(macro, monsters, prepend)
CombatStrategy_macro(st, macro, monsters, prepend) ==
  IF ~monsters.given
  THEN [ st EXCEPT !.this.default_macro =
           [ defined |-> TRUE,
             list |-> insert(st.this.default_macro.list, macro, prepend) ] ]
  ELSE [ st EXCEPT !.heap[st.this.macros] =
           MacroLoop(st.heap[st.this.macros], macro, monsters.list,
                     prepend, 1) ]

\* CombatStrategy.startingMacro(macro)
CombatStrategy_startingMacro(st, macro) ==
  [st EXCEPT !.this.starting_macro = <<macro>>]

RECURSIVE ActionLoop(_, _, _, _)
ActionLoop(map, action, monsters, i) ==
  IF i > Len(monsters) THEN map
  ELSE ActionLoop(mapSet(map, monsters[i], action), action, monsters, i + 1)

\* CombatStrategy.action(action, monsters)
CombatStrategy_action(st, action, monsters) ==
  IF ~monsters.given
  THEN [st EXCEPT !.this.default_action = <<action>>]
  ELSE [ st EXCEPT !.heap[st.this.actions] =
           ActionLoop(st.heap[st.this.actions], action, monsters.list, 1) ]

RECURSIVE CopyLists(_)
CopyLists(map) ==
  IF map = <<>> THEN <<>>
  ELSE <<[key |-> map[1].key, value |-> map[1].value]>> \o CopyLists(Tail(map))

\* CombatStrategy.clone(): result = { ...this } copies the own fields, the
\* references to the two Maps among them, and leaves the prototype behind;
\* default_macro gets a new array; result.macros.set and result.actions.set
\* write the copied lists into the Maps that this and result both hold
CombatStrategy_clone(st) ==
  [ this |-> [st.this EXCEPT !.methods = FALSE],
    heap |-> [ st.heap EXCEPT
                 ![st.this.macros] = CopyLists(st.heap[st.this.macros]),
                 ![st.this.actions] = CopyLists(st.heap[st.this.actions]) ] ]

RECURSIVE MonsterMacros(_, _, _)
MonsterMacros(macros, i, monster_macros) ==
  IF i > Len(macros) THEN monster_macros
  ELSE MonsterMacros(macros, i + 1,
         CompressedMacro_add(monster_macros, macros[i].key,
                             step(<<>>, mapUndelay(macros[i].value))))

RECURSIVE MonsterActions(_, _, _, _, _)
MonsterActions(actions, resources, defaults, i, monster_actions) ==
  IF i > Len(actions) THEN monster_actions
  ELSE LET macro == resolve(resources, defaults, actions[i].value,
                            OfMonster(actions[i].key))
       IN MonsterActions(actions, resources, defaults, i + 1,
            IF macro # <<>>
            THEN CompressedMacro_add(monster_actions, actions[i].key,
                                     step(<<>>, macro))
            ELSE monster_actions)

\* compile's pieces: the starting macro, if any
startingPiece(st) ==
  IF st.this.starting_macro # <<>>
  THEN step(<<>>, <<undelay(st.this.starting_macro[1])>>)
  ELSE <<>>

\* the non-monster specific macro
generalPiece(st) ==
  IF st.this.default_macro.defined
  THEN step(<<>>, mapUndelay(st.this.default_macro.list))
  ELSE <<>>

\* the non-monster specific action
generalAction(st, resources, defaults, location) ==
  IF st.this.default_action # <<>>
  THEN step(<<>>, resolve(resources, defaults, st.this.default_action[1],
                          location))
  ELSE <<>>

\* a compile that performs the general macros before the monsters' own
compileGeneralFirst(st, resources, defaults, location) ==
  LET monster_macros == MonsterMacros(st.heap[st.this.macros], 1, <<>>)
      monster_actions ==
        MonsterActions(st.heap[st.this.actions], resources, defaults, 1, <<>>)
  IN [ monster_macros |-> monster_macros,
       monster_actions |-> monster_actions,
       result |-> step(<<>>, << startingPiece(st),
                                generalPiece(st),
                                CompressedMacro_compile(monster_macros),
                                CompressedMacro_compile(monster_actions),
                                generalAction(st, resources, defaults,
                                              location) >>) ]

\* CombatStrategy.compile(resources, defaults, location): its two
\* CompressedMacro locals and the macro it returns
compile(st, resources, defaults, location) ==
  LET monster_macros == MonsterMacros(st.heap[st.this.macros], 1, <<>>)
      monster_actions ==
        MonsterActions(st.heap[st.this.actions], resources, defaults, 1, <<>>)
  IN [ monster_macros |-> monster_macros,
       monster_actions |-> monster_actions,
       result |-> step(<<>>, << startingPiece(st),
                                CompressedMacro_compile(monster_macros),
                                CompressedMacro_compile(monster_actions),
                                generalPiece(st),
                                generalAction(st, resources, defaults,
                                              location) >>) ]

\* what a strategy holds: its Maps' entries and its own fields
View(object, h) ==
  [ macros |-> h[object.macros], actions |-> h[object.actions],
    default_macro |-> object.default_macro,
    default_action |-> object.default_action,
    starting_macro |-> object.starting_macro ]

\* the receiver of a call: 0 is the template, i the i-th clone
Receiver(t) == IF t = 0 THEN strategy ELSE clones[t]

Bound(t) == [this |-> Receiver(t), heap |-> heap]

\* how a method is called on a receiver: receiver.method(...), or
\* CombatStrategy.prototype.method.call(receiver, ...)
Ways(t) == IF t = 0 THEN {"method"} ELSE {"method", "prototype"}

\* a call of a method: a TypeError when it is looked up on a receiver that
\* does not have it
Invoke(t, how, call, st, more) ==
  /\ combatOps < MaxCombatOps
  /\ combatOps' = combatOps + 1
  /\ IF Receiver(t).methods \/ how = "prototype"
     THEN /\ heap' = st.heap
          /\ strategy' = IF t = 0 THEN st.this ELSE strategy
          /\ clones' = IF t = 0 THEN clones
                       ELSE [clones EXCEPT ![t] = st.this]
          /\ lastCombat' = [ target |-> t, how |-> how, res |-> "success",
                             before |-> View(strategy, heap) ] @@ more @@ call
     ELSE /\ UNCHANGED <<heap, strategy, clones>>
          /\ lastCombat' = [ target |-> t, how |-> how, res |-> "throw",
                             before |-> View(strategy, heap) ] @@ call
  /\ UNCHANGED <<engineVars, outfitVars, dressVars, effectVars, itemVars, lifeVars, run, taskVars, player>>

\* receiver.macro(macro, monsters, prepend)
CallMacro(t, how, macro, monsters, prepend) ==
  Invoke(t, how, [op |-> "macro"],
         CombatStrategy_macro(Bound(t), macro, monsters, prepend),
         [macro |-> macro, monsters |-> monsters, prepend |-> prepend])

\* receiver.startingMacro(macro)
CallStartingMacro(t, how, macro) ==
  Invoke(t, how, [op |-> "startingMacro"],
         CombatStrategy_startingMacro(Bound(t), macro), [macro |-> macro])

\* receiver.action(action, monsters)
CallAction(t, how, action, monsters) ==
  Invoke(t, how, [op |-> "action"],
         CombatStrategy_action(Bound(t), action, monsters),
         [action |-> action, monsters |-> monsters])

\* receiver.compile(resources, defaults, location)
CallCompile(t, how, resources, defaults, location) ==
  Invoke(t, how, [op |-> "compile"], Bound(t),
         [ resources |-> resources, defaults |-> defaults,
           location |-> location,
           compiled |-> compile(Bound(t), resources, defaults, location) ])

\* task.combat.clone(), as Engine.execute calls it
CallClone ==
  /\ combatOps < MaxCombatOps
  /\ Len(clones) < MaxClones
  /\ combatOps' = combatOps + 1
  /\ LET r == CombatStrategy_clone(Bound(0))
     IN /\ heap' = r.heap
        /\ clones' = Append(clones, r.this)
        /\ lastCombat' = [ op |-> "clone", target |-> 0, how |-> "method",
                           res |-> "success",
                           before |-> View(strategy, heap) ]
  /\ UNCHANGED <<strategy, engineVars, outfitVars, dressVars, effectVars, itemVars, lifeVars, run, taskVars, player>>

MacroInputs == {Now(<<>>), Now(<<"attack">>), Later(<<"skill saucestorm">>)}

MonsterInputs == {NoMonsters, These(<<1>>), These(<<3>>), These(<<2, 3>>)}

ResourceInputs ==
  { <<>>,
    <<[key |-> "kill", value |-> DoSkill("saucestorm")]>>,
    <<[key |-> "banish", value |-> DoItem("louder than bomb")]>>,
    << [key |-> "banish", value |-> DoMacro(<<"runaway">>)],
       [key |-> "kill", value |-> DoMacro(<<"attack">>)] >> }

DefaultsInputs ==
  { NoDefaults,
    Defaults(<<[key |-> "kill", value |-> "attack"]>>),
    Defaults(<< [key |-> "kill", value |-> "by target"],
                [key |-> "banish", value |-> "empty"] >>) }

LocationInputs == {NoTarget, OfLocation(1)}

\* a strategy with every part set: new CombatStrategy().startingMacro(..)
\* .macro(.., [1, 2]).action("kill", 3).macro(..).action("banish")
Seeded ==
  CombatStrategy_action(
    CombatStrategy_macro(
      CombatStrategy_action(
        CombatStrategy_macro(
          CombatStrategy_startingMacro(NewStrategy, Now(<<"skill curse">>)),
          Now(<<"attack">>), These(<<1, 2>>), FALSE),
        "kill", These(<<3>>)),
      Later(<<"skill saucestorm">>), NoMonsters, FALSE),
    "banish", NoMonsters)

\* a strategy whose monsters 1 and 2 have macros of different shapes and
\* one rendered text: new CombatStrategy().macro(attack, 1).macro(skill, 1)
\* .macro(attack-then-skill, 2).macro(.., 3).action("kill", [1, 2]).macro(..)
Mixed ==
  CombatStrategy_macro(
    CombatStrategy_action(
      CombatStrategy_macro(
        CombatStrategy_macro(
          CombatStrategy_macro(
            CombatStrategy_macro(NewStrategy, Now(<<"attack">>),
                                 These(<<1>>), FALSE),
            Later(<<"skill saucestorm">>), These(<<1>>), FALSE),
          Now(<<"attack", "skill saucestorm">>), These(<<2>>), FALSE),
        Now(<<"skill curse">>), These(<<3>>), FALSE),
      "kill", These(<<1, 2>>)),
    Now(<<"runaway">>), NoMonsters, FALSE)

InitCombat ==
  /\ InitEngineIdle
  /\ InitOutfitIdle
  /\ InitDressIdle
  /\ InitEffectsIdle
  /\ InitItemsIdle
  /\ InitLifeIdle
  /\ InitRunIdle
  /\ InitTasksIdle
  /\ InitCurrentIdle
  /\ \E st \in {NewStrategy, Seeded, Mixed} : strategy = st.this /\ heap = st.heap
  /\ clones = <<>>
  /\ combatOps = 0
  /\ lastCombat = [ op |-> "new", target |-> 0, how |-> "method",
                    res |-> "success" ]

NextCombat ==
  \/ \E t \in 0..Len(clones) : \E how \in Ways(t), macro \in MacroInputs,
        monsters \in MonsterInputs, prepend \in BOOLEAN :
       CallMacro(t, how, macro, monsters, prepend)
  \/ \E t \in 0..Len(clones) : \E how \in Ways(t), macro \in MacroInputs :
       CallStartingMacro(t, how, macro)
  \/ \E t \in 0..Len(clones) : \E how \in Ways(t), action \in CombatActions,
        monsters \in MonsterInputs :
       CallAction(t, how, action, monsters)
  \/ \E t \in 0..Len(clones) : \E how \in Ways(t),
        resources \in ResourceInputs, defaults \in DefaultsInputs,
        location \in LocationInputs :
       CallCompile(t, how, resources, defaults, location)
  \/ CallClone

SpecCombat == InitCombat /\ [][NextCombat]_vars

----------------------------------------------------------------------------
(* Outfit.dress (src/outfit.ts) and the game it dresses *)

MaxDress == 1

\* kolmafia's equippedAmount(item): the copies the player wears
mafiaEquippedAmount(g, item) ==
  Cardinality({s \in SlotSet : g.worn[s] = item})

\* whether the player has a copy of the item to put on beside the worn ones
spare(g, item) ==
  /\ owned[item] > mafiaEquippedAmount(g, item)
  /\ singleEquip(item) => mafiaEquippedAmount(g, item) = 0

\* kolmafia's equip(slot, item): it needs a spare copy, and when the only
\* copies are worn elsewhere it moves one or fails (g.moves)
mafiaEquip(g, slot, item) ==
  IF item = "none" \/ g.worn[slot] = item
  THEN [g EXCEPT !.worn[slot] = item]
  ELSE IF ~canEquip(item) THEN g
  ELSE IF spare(g, item)
       THEN [g EXCEPT !.worn[slot] = item]
       ELSE IF g.moves /\ mafiaEquippedAmount(g, item) > 0
            THEN LET from == CHOOSE s \in SlotSet : g.worn[s] = item
                 IN [g EXCEPT !.worn[from] = "none", !.worn[slot] = item]
            ELSE g

\* kolmafia's useFamiliar(familiar)
useFamiliar(g, familiar) ==
  IF familiar = "none" \/ haveFamiliar(familiar)
  THEN [g EXCEPT !.familiar = familiar] ELSE g

\* one call made to the game
Logged(call, slot, item, force, prevent) ==
  [call |-> call, slot |-> slot, item |-> item, force |-> force,
   prevent |-> prevent]

nonaccessorySlots == <<"weapon", "off-hand", "hat", "familiar">>

\* Array.from(this.equips.values())
targetEquipment(o) == {o.equips[s] : s \in {x \in SlotSet : has(o, x)}}

\* the manual removal of equipment wanted in a different slot
RECURSIVE RemoveLoop(_, _, _)
RemoveLoop(o, ps, i) ==
  IF i > Len(nonaccessorySlots) THEN ps
  ELSE LET slot == nonaccessorySlots[i]
           worn == ps.g.worn[slot]
       IN IF \/ worn \in targetEquipment(o) /\ o.equips[slot] # worn
             \/ worn \in o.avoid
             \/ /\ slot = "weapon"
                /\ weaponHands(worn) # 1
                /\ has(o, "off-hand")
                /\ ~has(o, "weapon")
          THEN RemoveLoop(o,
                 [ps EXCEPT !.g = mafiaEquip(ps.g, slot, "none"),
                            !.log = Append(ps.log,
                                      Logged("equip", slot, "none", FALSE, {}))],
                 i + 1)
          ELSE RemoveLoop(o, ps, i + 1)

\* the equipping of all the non-accessory equipment
RECURSIVE EquipLoop(_, _, _)
EquipLoop(o, ps, i) ==
  IF i > Len(nonaccessorySlots) THEN ps
  ELSE LET slot == nonaccessorySlots[i]
       IN IF has(o, slot)
          THEN EquipLoop(o,
                 [ps EXCEPT !.g = mafiaEquip(ps.g, slot, o.equips[slot]),
                            !.log = Append(ps.log,
                                      Logged("equip", slot, o.equips[slot],
                                             FALSE, {})),
                            !.usedSlots = ps.usedSlots \cup {slot}],
                 i + 1)
          ELSE EquipLoop(o, ps, i + 1)

\* accessorySlots.find(pred): the first accessory slot in a set, or undefined
findSlot(slots) ==
  IF \E k \in 1..Len(accSlots) : accSlots[k] \in slots
  THEN accSlots[CHOOSE k \in 1..Len(accSlots) :
                  /\ accSlots[k] \in slots
                  /\ \A j \in 1..(k - 1) : accSlots[j] \notin slots]
  ELSE Absent

\* the accessories of the outfit, in the order acc1, acc2, acc3
accessoryEquips(o) ==
  LET at(k) == IF has(o, accSlots[k]) THEN <<o.equips[accSlots[k]]>> ELSE <<>>
  IN at(1) \o at(2) \o at(3)

\* a search that finds no accessory already worn
alreadyEquippedNever(g, usedSlots, accessory) == Absent

\* the slot in which an accessory is already worn, if in any not yet used
alreadyEquipped(g, usedSlots, accessory) ==
  findSlot({s \in SlotSet : s \notin usedSlots /\ g.worn[s] = accessory})

\* a planning loop that also lists the accessories found worn as missing
RECURSIVE PlanLoopBoth(_, _, _, _)
PlanLoopBoth(accessories, ps, missingAccessories, i) ==
  IF i > Len(accessories) THEN [ps |-> ps, missing |-> missingAccessories]
  ELSE LET found == alreadyEquipped(ps.g, ps.usedSlots, accessories[i])
       IN PlanLoopBoth(accessories,
            IF found # Absent
            THEN [ps EXCEPT !.usedSlots = ps.usedSlots \cup {found}]
            ELSE ps,
            Append(missingAccessories, accessories[i]), i + 1)

\* the planning loop: the accessories not yet worn, the slots of the others
RECURSIVE PlanLoop(_, _, _, _)
PlanLoop(accessories, ps, missingAccessories, i) ==
  IF i > Len(accessories) THEN [ps |-> ps, missing |-> missingAccessories]
  ELSE LET found == alreadyEquipped(ps.g, ps.usedSlots, accessories[i])
       IN IF found # Absent
          THEN PlanLoop(accessories,
                        [ps EXCEPT !.usedSlots = ps.usedSlots \cup {found}],
                        missingAccessories, i + 1)
          ELSE PlanLoop(accessories, ps,
                        Append(missingAccessories, accessories[i]), i + 1)

\* the placing loop: every missing accessory into the first open slot
RECURSIVE PlaceLoop(_, _, _)
PlaceLoop(missingAccessories, ps, i) ==
  IF i > Len(missingAccessories) THEN ps
  ELSE LET unusedSlot == findSlot(SlotSet \ ps.usedSlots)
       IN IF unusedSlot = Absent
          THEN [ps EXCEPT !.res = "throw",
                          !.error = "No accessory slots remaining"]
          ELSE PlaceLoop(missingAccessories,
                 [ps EXCEPT !.g = mafiaEquip(ps.g, unusedSlot,
                                             missingAccessories[i]),
                            !.log = Append(ps.log,
                                      Logged("equip", unusedSlot,
                                             missingAccessories[i], FALSE, {})),
                            !.usedSlots = ps.usedSlots \cup {unusedSlot}],
                 i + 1)

\* the number of maximizer calls in a log
RECURSIVE Maximizes(_)
Maximizes(made) ==
  IF made = <<>> THEN 0
  ELSE (IF made[1].call = "maximize" THEN 1 ELSE 0) + Maximizes(Tail(made))

\* Requirement.maximize(): whether the n-th call succeeds is the game's
\* choice (t.outcomes); a successful one may fill the first slot that is
\* not prevented with a spare item of its choice (t.pick)
maximize(t, ps) ==
  LET n == Maximizes(ps.log) + 1
      ok == IF n <= Len(t.outcomes) THEN t.outcomes[n] ELSE TRUE
      free == findSlot(SlotSet \ ps.usedSlots)
  IN [ ok |-> ok,
       g |-> IF ok /\ t.pick # "none" /\ free # Absent
                /\ t.pick \notin t.o.avoid /\ spare(ps.g, t.pick)
             THEN [ps.g EXCEPT !.worn[free] = t.pick]
             ELSE ps.g ]

\* the verification that all equipment was indeed equipped
Verify(o, ps) ==
  LET accessories == accessoryEquips(o)
      count(a) == Cardinality({k \in 1..Len(accessories) : accessories[k] = a})
  IN IF o.familiar # Absent /\ ps.g.familiar # o.familiar
     THEN [ps EXCEPT !.res = "throw", !.error = "Failed to fully dress"]
     ELSE IF \E k \in 1..Len(nonaccessorySlots) :
               /\ has(o, nonaccessorySlots[k])
               /\ ps.g.worn[nonaccessorySlots[k]] # o.equips[nonaccessorySlots[k]]
          THEN [ps EXCEPT !.res = "throw", !.error = "Failed to fully dress"]
          ELSE IF \E k \in 1..Len(accessories) :
                    mafiaEquippedAmount(ps.g, accessories[k])
                      < count(accessories[k])
               THEN [ps EXCEPT !.res = "throw",
                               !.error = "Failed to fully dress"]
               ELSE ps

\* a retry after every failure of the maximizer
mayRetryAlways(refreshed) == TRUE

\* if (!refreshed): whether a failed maximize is retried
mayRetry(refreshed) == ~refreshed

\* Outfit._dress(refreshed), on the game g with the calls logged so far
RECURSIVE _dress(_, _, _, _)
_dress(t, g, refreshed, made) ==
  LET o == t.o
      p0 == [ g |-> IF o.familiar # Absent THEN useFamiliar(g, o.familiar)
                    ELSE g,
              log |-> IF o.familiar # Absent
                      THEN Append(made, Logged("useFamiliar", Absent,
                                               o.familiar, FALSE, {}))
                      ELSE made,
              usedSlots |-> {}, res |-> "done", error |-> "" ]
      p1 == EquipLoop(o, RemoveLoop(o, p0, 1), 1)
      plan == PlanLoop(accessoryEquips(o), p1, <<>>, 1)
      p2 == PlaceLoop(plan.missing, plan.ps, 1)
  IN IF p2.res = "throw" THEN p2
     ELSE IF Len(t.modifier) > 0
          THEN LET m == maximize(t, p2)
                   p3 == [p2 EXCEPT !.g = m.g,
                                    !.log = Append(p2.log,
                                              Logged("maximize", Absent, "none",
                                                     refreshed, p2.usedSlots))]
               IN IF ~m.ok
                  THEN IF mayRetry(refreshed)
                       THEN _dress(t, p3.g, TRUE,
                                   Append(p3.log,
                                          Logged("refresh inventory", Absent,
                                                 "none", FALSE, {})))
                       ELSE [p3 EXCEPT !.res = "throw",
                                       !.error = "Failed to maximize properly!"]
                  ELSE Verify(o, p3)
          ELSE Verify(o, p2)

\* Outfit.dress(), with no pre- or post-actions
dress(t, g) == _dress(t, g, FALSE, <<>>)

\* outfit.dress() for an outfit the equip solver built, with modifiers
CallDress(things, modifier, outcomes, pick) ==
  /\ dresses < MaxDress
  /\ dresses' = dresses + 1
  /\ LET t == [ o |-> equipArray("main", NewOutfit, things, Absent).o,
                modifier |-> modifier, outcomes |-> outcomes, pick |-> pick ]
         r == dress(t, game)
     IN /\ game' = r.g
        /\ lastDress' = [ op |-> "dress", o |-> t.o, modifier |-> modifier,
                          outcomes |-> outcomes, before |-> game,
                          log |-> r.log, res |-> r.res, error |-> r.error ]
  /\ UNCHANGED <<engineVars, outfitVars, combatVars, effectVars, itemVars, lifeVars, run, taskVars, player>>

\* what the outfits to dress are built from
DressArrays ==
  { <<>>, <<"ring">>, <<"ring", "charm">>, <<"charm", "ring">>,
    <<"ring", "ring", "charm">>, <<"helmet", "ring">>,
    <<"sword", "shield", "charm">> }

\* the outfit's modifier, the maximizer's successive outcomes and its pick
MaximizerInputs ==
  { [modifier |-> <<>>, outcomes |-> <<TRUE, TRUE, TRUE>>, pick |-> "none"],
    [modifier |-> <<"item drop">>, outcomes |-> <<TRUE, TRUE, TRUE>>,
     pick |-> "none"],
    [modifier |-> <<"item drop">>, outcomes |-> <<TRUE, TRUE, TRUE>>,
     pick |-> "charm"],
    [modifier |-> <<"item drop">>, outcomes |-> <<FALSE, TRUE, TRUE>>,
     pick |-> "none"],
    [modifier |-> <<"item drop">>, outcomes |-> <<FALSE, TRUE, TRUE>>,
     pick |-> "charm"],
    [modifier |-> <<"item drop">>, outcomes |-> <<FALSE, FALSE, TRUE>>,
     pick |-> "none"] }

\* what the player may wear when dress() is called
Wearings ==
  { w \in [SlotSet -> {"none", "helmet", "sword", "ring", "charm"}] :
      /\ \A s \in SlotSet :
           w[s] # "none" =>
             IF s \in {"acc1", "acc2", "acc3"} THEN toSlot(w[s]) = "acc1"
             ELSE toSlot(w[s]) = s
      /\ \A i \in {"helmet", "sword", "ring", "charm"} :
           Cardinality({s \in SlotSet : w[s] = i})
             <= IF singleEquip(i) THEN 1 ELSE owned[i] }

InitDress ==
  /\ InitEngineIdle
  /\ InitOutfitIdle
  /\ InitCombatIdle
  /\ InitEffectsIdle
  /\ InitItemsIdle
  /\ InitLifeIdle
  /\ InitRunIdle
  /\ InitTasksIdle
  /\ InitCurrentIdle
  /\ \E w \in Wearings, moves \in BOOLEAN :
       game = [worn |-> w, familiar |-> "none", moves |-> moves]
  /\ dresses = 0
  /\ lastDress = [op |-> "new", res |-> "done"]

NextDress ==
  \E things \in DressArrays, m \in MaximizerInputs :
    CallDress(things, m.modifier, m.outcomes, m.pick)

SpecDress == InitDress /\ [][NextDress]_vars

----------------------------------------------------------------------------
(* Outfit.dress for outfits built with equip(item, slot) *)

\* one equip(item, slot) call
At(item, slot) == [item |-> item, slot |-> slot]

\* successive outfit.equip(item, slot) calls, whatever each returns
RECURSIVE EquipEach(_, _, _)
EquipEach(o, placements, i) ==
  IF i > Len(placements) THEN o
  ELSE EquipEach(equipItem("main", o, placements[i].item,
                           placements[i].slot).o,
                 placements, i + 1)

\* outfit.dress() for an outfit built by equip calls that name slots
CallDressPlaced(placements, modifier, outcomes, pick) ==
  /\ dresses < MaxDress
  /\ dresses' = dresses + 1
  /\ LET t == [ o |-> EquipEach(NewOutfit, placements, 1),
                modifier |-> modifier, outcomes |-> outcomes, pick |-> pick ]
         r == dress(t, game)
     IN /\ game' = r.g
        /\ lastDress' = [ op |-> "dress", o |-> t.o, modifier |-> modifier,
                          outcomes |-> outcomes, before |-> game,
                          log |-> r.log, res |-> r.res, error |-> r.error ]
  /\ UNCHANGED <<engineVars, outfitVars, combatVars, effectVars, itemVars, lifeVars, run, taskVars, player>>

\* the equip calls the outfits are built with: up to three accessories, a
\* fourth that finds no slot, and a slot to be left empty
Placements ==
  { <<At("ring", "acc1"), At("ring", "acc2"), At("charm", Absent)>>,
    <<At("ring", "acc3"), At("charm", "acc1"), At("ring", "acc2")>>,
    <<At("charm", "acc2"), At("ring", Absent), At("ring", "acc3")>>,
    <<At("ring", "acc2"), At("ring", "acc3"), At("charm", "acc1"),
      At("ring", "acc1"), At("helmet", Absent)>>,
    <<At("charm", "acc3"), At("ring", "acc2")>>,
    <<At("none", "acc1"), At("ring", "acc2"), At("ring", "acc3")>>,
    <<At("ring", "acc3")>> }

NextAccessories ==
  \E placements \in Placements, m \in MaximizerInputs :
    CallDressPlaced(placements, m.modifier, m.outcomes, m.pick)

SpecAccessories == InitDress /\ [][NextAccessories]_vars

----------------------------------------------------------------------------
(* Engine.acquireEffects and maxSongs (src/engine.ts) *)

MaxAcquires == 2

Songs == {"Ode", "Polka", "Phat Loot", "Aria", "Madrigal"}
Effects == Songs \cup {"Leash", "Empathy"}

\* libram's isSong(effect)
isSong(effect) == effect \in Songs

\* a song cap that the requests used here never exceed
maxSongsAmple(memory) == 5

\* maxSongs(), memory being have($skill`Mariachi Memory`)
maxSongs(memory) == IF memory THEN 4 ELSE 3

\* Array.prototype.includes
includes(list, value) == \E k \in 1..Len(list) : list[k] = value

\* a loop that removes every extra song once the songs do not fit
ShrugAll(songs, extraSongs, memory, st) ==
  IF Len(songs) + Len(extraSongs) > maxSongs(memory)
  THEN [ st EXCEPT
           !.active = SelectSeq(st.active,
                                LAMBDA e : ~includes(extraSongs, e)),
           !.removed = extraSongs ]
  ELSE st

\* the while loop: pop and uneffect extra songs until the songs fit
RECURSIVE ShrugLoop(_, _, _, _)
ShrugLoop(songs, extraSongs, memory, st) ==
  IF Len(songs) + Len(extraSongs) > maxSongs(memory) /\ extraSongs # <<>>
  THEN LET toRemove == extraSongs[Len(extraSongs)]
       IN ShrugLoop(songs, SubSeq(extraSongs, 1, Len(extraSongs) - 1),
                    memory,
                    [ st EXCEPT
                        !.active = SelectSeq(st.active,
                                             LAMBDA e : e # toRemove),
                        !.removed = Append(st.removed, toRemove) ])
  ELSE st

\* libram's ensureEffect(effect): the effect is obtained unless active
RECURSIVE EnsureLoop(_, _, _)
EnsureLoop(effects, st, i) ==
  IF i > Len(effects) THEN st
  ELSE EnsureLoop(effects,
         IF includes(st.active, effects[i]) THEN st
         ELSE [ st EXCEPT !.active = Append(st.active, effects[i]),
                          !.applied = Append(st.applied, effects[i]) ],
         i + 1)

\* Engine.acquireEffects(task), effects being undelay(task.effects) ?? []
\* and active the keys of myEffects()
acquireEffects(effects, active, memory) ==
  LET songs == SelectSeq(effects, isSong)
      st == [ active |-> active, removed |-> <<>>, applied |-> <<>>,
              res |-> "done", error |-> "" ]
  IN IF Len(songs) > maxSongs(memory)
     THEN [st EXCEPT !.res = "throw", !.error = "Too many AT songs"]
     ELSE LET extraSongs ==
                SelectSeq(active,
                          LAMBDA e : isSong(e) /\ ~includes(songs, e))
          IN EnsureLoop(effects,
                        ShrugLoop(songs, extraSongs, memory, st), 1)

\* the effect step of execute() for a task with these effects
CallAcquireEffects(effects) ==
  /\ acquires < MaxAcquires
  /\ acquires' = acquires + 1
  /\ LET r == acquireEffects(effects, myEffects, mariachi)
     IN /\ myEffects' = r.active
        /\ lastAcquire' = [ op |-> "acquireEffects", effects |-> effects,
                            before |-> myEffects, removed |-> r.removed,
                            applied |-> r.applied, res |-> r.res,
                            error |-> r.error ]
  /\ UNCHANGED <<mariachi, engineVars, outfitVars, combatVars, dressVars, itemVars, lifeVars, run, taskVars, player>>

\* the values of task.effects
EffectLists ==
  { <<>>, <<"Leash">>, <<"Ode", "Polka">>,
    <<"Ode", "Leash", "Polka", "Phat Loot">>,
    <<"Ode", "Polka", "Phat Loot", "Aria">>,
    <<"Empathy", "Ode", "Polka", "Phat Loot", "Aria">>,
    <<"Ode", "Polka", "Phat Loot", "Aria", "Madrigal">>,
    <<"Ode", "Ode", "Polka", "Phat Loot">> }

\* the effects the player may have: at most three songs among them
ActiveLists ==
  { <<>>, <<"Ode">>, <<"Leash", "Empathy">>, <<"Aria", "Madrigal">>,
    <<"Aria", "Leash", "Madrigal", "Polka">>,
    <<"Ode", "Polka", "Phat Loot">>,
    <<"Madrigal", "Ode", "Empathy", "Aria">>,
    <<"Phat Loot", "Aria", "Madrigal", "Leash">> }

InitEffects ==
  /\ InitEngineIdle
  /\ InitOutfitIdle
  /\ InitCombatIdle
  /\ InitDressIdle
  /\ InitItemsIdle
  /\ InitLifeIdle
  /\ InitRunIdle
  /\ InitTasksIdle
  /\ InitCurrentIdle
  /\ myEffects \in ActiveLists
  /\ mariachi \in BOOLEAN
  /\ acquires = 0
  /\ lastAcquire = [op |-> "new", res |-> "done"]

NextEffects == \E effects \in EffectLists : CallAcquireEffects(effects)

SpecEffects == InitEffects /\ [][NextEffects]_vars

----------------------------------------------------------------------------
(* Engine.acquireItems (src/engine.ts) *)

MaxItemCalls == 1
MaxCount == 3

AcquireItemNames == {"seal tooth", "garbage shirt"}

\* Object.keys(getRelated(item, "fold")).length > 0
foldable(item) == item = "garbage shirt"

\* one entry of task.acquire; num is Undef and useful "undefined" when unset
AcquireItem(item, num, useful, get, price, optional) ==
  [ item |-> item, num |-> num, useful |-> useful, get |-> get,
    price |-> price, optional |-> optional ]

\* to_get.num ?? 1
numNeeded(to_get) == IF to_get.num = Undef THEN 1 ELSE to_get.num

\* itemAmount(item) + equippedAmount(item)
numHave(inv, item) == inv.amount[item] + inv.equipped[item]

\* the one acquisition action taken for a deficient request
acquisition(to_get) ==
  IF to_get.get THEN "get"
  ELSE IF to_get.price # Undef THEN "buy"
  ELSE IF foldable(to_get.item) THEN "fold"
  ELSE "retrieve"

\* a final test that takes no account of optional
unableOptionalToo(to_get, count) == count < numNeeded(to_get)

\* the test after the acquisition: still too few, and not optional
unable(to_get, count) == count < numNeeded(to_get) /\ ~to_get.optional

\* the loop of acquireItems; what an acquisition yields is the game's
\* choice (yields[i] more copies, within MaxCount)
RECURSIVE AcquireLoop(_, _, _, _, _)
AcquireLoop(name, acquire, yields, st, i) ==
  IF i > Len(acquire) THEN st
  ELSE
    LET to_get == acquire[i]
        num_needed == numNeeded(to_get)
        num_have == numHave(st.inv, to_get.item)
        visit(action, after) ==
          [ i |-> i, action |-> action, have |-> num_have, after |-> after,
            amount |-> IF action = "buy" THEN num_needed - num_have
                       ELSE IF action = "retrieve" THEN num_needed ELSE 0 ]
    IN IF num_needed <= num_have \/ to_get.useful = "false"
       THEN AcquireLoop(name, acquire, yields,
                        [st EXCEPT !.log = Append(st.log, visit("none", num_have))],
                        i + 1)
       ELSE
         LET gained == IF st.inv.amount[to_get.item] + yields[i] > MaxCount
                       THEN MaxCount - st.inv.amount[to_get.item]
                       ELSE yields[i]
             inv == [st.inv EXCEPT !.amount[to_get.item] = @ + gained]
             after == numHave(inv, to_get.item)
             next == [ st EXCEPT !.inv = inv,
                         !.log = Append(st.log,
                                        visit(acquisition(to_get), after)) ]
         IN IF unable(to_get, after)
            THEN [ next EXCEPT !.res = "throw",
                     !.error = "Task " \o name \o " was unable to acquire "
                               \o ToString(num_needed) \o " " \o to_get.item ]
            ELSE AcquireLoop(name, acquire, yields, next, i + 1)

\* Engine.acquireItems(task), acquire being undelay(task.acquire) || []
acquireItems(name, acquire, yields, inv) ==
  AcquireLoop(name, acquire, yields,
              [inv |-> inv, log |-> <<>>, res |-> "done", error |-> ""], 1)

\* the item step of execute() for a task with these requests
CallAcquireItems(name, acquire, yields) ==
  /\ itemCalls < MaxItemCalls
  /\ itemCalls' = itemCalls + 1
  /\ LET r == acquireItems(name, acquire, yields, inventory)
     IN /\ inventory' = r.inv
        /\ lastItems' = [ op |-> "acquireItems", task |-> name,
                          acquire |-> acquire, before |-> inventory,
                          log |-> r.log, res |-> r.res, error |-> r.error ]
  /\ UNCHANGED <<engineVars, outfitVars, combatVars, dressVars, effectVars, lifeVars, run, taskVars, player>>

\* the values of task.acquire
AcquireRequests ==
  { AcquireItem("seal tooth", Undef, "undefined", FALSE, Undef, FALSE),
    AcquireItem("seal tooth", 2, "true", FALSE, 100, FALSE),
    AcquireItem("seal tooth", 2, "false", FALSE, Undef, FALSE),
    AcquireItem("seal tooth", 3, "undefined", TRUE, 100, TRUE),
    AcquireItem("garbage shirt", Undef, "undefined", FALSE, Undef, FALSE),
    AcquireItem("garbage shirt", 2, "true", FALSE, Undef, TRUE),
    AcquireItem("garbage shirt", 1, "undefined", TRUE, Undef, FALSE) }

AcquireLists ==
  {<<>>} \cup {<<a>> : a \in AcquireRequests}
         \cup {<<a, b>> : a \in AcquireRequests, b \in AcquireRequests}

YieldInputs == {<<0, 0>>, <<1, 0>>, <<0, 1>>, <<1, 1>>, <<2, 1>>}

InitItems ==
  /\ InitEngineIdle
  /\ InitOutfitIdle
  /\ InitCombatIdle
  /\ InitDressIdle
  /\ InitEffectsIdle
  /\ InitLifeIdle
  /\ InitRunIdle
  /\ InitTasksIdle
  /\ InitCurrentIdle
  /\ \E amount \in [AcquireItemNames -> 0..1],
        equipped \in [AcquireItemNames -> 0..1] :
       inventory = [amount |-> amount, equipped |-> equipped]
  /\ itemCalls = 0
  /\ lastItems = [op |-> "new", res |-> "done"]

NextItems ==
  \E name \in {"A", "B"}, acquire \in AcquireLists, yields \in YieldInputs :
    CallAcquireItems(name, acquire, yields)

SpecItems == InitItems /\ [][NextItems]_vars

----------------------------------------------------------------------------
(* The state an Engine owns, from its construction to destruct() *)

MaxLifeOps == 4

PropertyNames == {"currentMood", "customCombatScript", "choiceAdventure1"}

grimoireCCS == "grimoire_macro"

\* the engine's fields, with the game's properties and auto-attack
Owned ==
  [ attempts |-> attempts, cachedCcsContents |-> cachedCcsContents,
    propertyManager |-> propertyManager, properties |-> properties,
    autoAttack |-> autoAttack ]

\* PropertiesManager.set of one property: the value it had is saved the
\* first time, then the property is written
managerSet(st, p, v) ==
  [ st EXCEPT !.properties[p] = v,
              !.propertyManager[p] =
                 IF @ = Absent THEN st.properties[p] ELSE @ ]

\* PropertiesManager.resetAll: every saved value is written back and the
\* manager forgets them
resetAll(st) ==
  [ st EXCEPT !.properties =
                 [p \in PropertyNames |->
                    IF st.propertyManager[p] = Absent THEN st.properties[p]
                    ELSE st.propertyManager[p]],
              !.propertyManager = [p \in PropertyNames |-> Absent] ]

\* Engine.initPropertiesManager(manager), with options.ccs undefined
initPropertiesManager(st) ==
  managerSet(managerSet(st, "currentMood", "apathetic"),
             "customCombatScript", grimoireCCS)

\* new Engine(tasks) in a game with these properties and auto-attack
NewEngine(props, auto) ==
  initPropertiesManager(
    [ attempts |-> [n \in TaskNames |-> Undef], cachedCcsContents |-> "",
      propertyManager |-> [p \in PropertyNames |-> Absent],
      properties |-> props, autoAttack |-> auto ])

\* Engine.setCombat (options.ccs unset) for a task whose compiled script
\* file text is ccsContents and whose auto-attack macro is auto (0: none)
setCombat(st, ccsContents, auto) ==
  [ st EXCEPT !.cachedCcsContents =
                 IF ccsContents # @ THEN ccsContents ELSE @,
              !.autoAttack = auto ]

\* Engine.setChoices(task, manager) for a task with choice 1 set to value
setChoices(st, value) ==
  IF value = Absent THEN st ELSE managerSet(st, "choiceAdventure1", value)

\* a destruct() that also empties the attempt map and the cached text
destructAll(st) ==
  [ resetAll(st) EXCEPT !.attempts = [n \in TaskNames |-> Undef],
                        !.cachedCcsContents = "",
                        !.autoAttack = 0 ]

\* Engine.destruct()
destruct(st) == [resetAll(st) EXCEPT !.autoAttack = 0]

Life(op, st) ==
  /\ lifeOps < MaxLifeOps
  /\ lifeOps' = lifeOps + 1
  /\ attempts' = st.attempts
  /\ cachedCcsContents' = st.cachedCcsContents
  /\ propertyManager' = st.propertyManager
  /\ properties' = st.properties
  /\ autoAttack' = st.autoAttack
  /\ lastLife' = [op |-> op, before |-> Owned, start |-> lastLife.start]
  /\ ccs' = ccs
  /\ UNCHANGED <<tasks, world, cur, pc, postcondition, result, log, hist,
                 outfitVars, combatVars, dressVars, effectVars, itemVars, run, taskVars, player>>

\* the engine-owned part of a completed execute(task): setCombat,
\* setChoices, markAttempt
LifeExecute(name, ccsContents, auto, value) ==
  /\ lastLife.op # "destruct"
  /\ Life("execute",
          [ setChoices(setCombat(Owned, ccsContents, auto), value)
              EXCEPT !.attempts = markAttempt([name |-> name]) ])

CallDestruct ==
  /\ lastLife.op # "destruct"
  /\ Life("destruct", destruct(Owned))

InitLife ==
  /\ InitEngineIdle
  /\ InitOutfitIdle
  /\ InitCombatIdle
  /\ InitDressIdle
  /\ InitEffectsIdle
  /\ InitItemsIdle
  /\ InitRunIdle
  /\ InitTasksIdle
  /\ InitCurrentIdle
  /\ \E props \in [PropertyNames -> {"", "default"}], auto \in {0, 7} :
       LET eng == NewEngine(props, auto)
       IN /\ cachedCcsContents = eng.cachedCcsContents
          /\ propertyManager = eng.propertyManager
          /\ properties = eng.properties
          /\ autoAttack = eng.autoAttack
          /\ lastLife = [op |-> "new", start |-> props]
  /\ lifeOps = 0
  /\ ccs = "unused"

NextLife ==
  \/ \E name \in TaskNames, ccsContents \in {"[default]\nattack", "[default]\nrunaway"},
        auto \in {0, 7}, value \in {Absent, "1"} :
       LifeExecute(name, ccsContents, auto, value)
  \/ CallDestruct

SpecLife == InitLife /\ [][NextLife]_vars

----------------------------------------------------------------------------
(* The combat-script file that engines write (src/engine.ts) *)

MaxCcsOps == 5

\* the engines of a script, all without the ccs option
Engines == {1, 2}

\* the combat-script texts setCombat compiles
CcsTexts == {"[default]\nattack", "[default]\nrunaway"}

\* the write of initPropertiesManager as new Engine() runs it: a simple
\* script is written when the file is empty; the engine's cached text is ""
construct(c, e) ==
  [ c EXCEPT !.file = IF @ = "" THEN "[ default ]\nabort" ELSE @,
             !.cachedCcsContents[e] = "",
             !.built = @ \cup {e} ]

\* the combat-script part of Engine.setCombat for engine e: the file is
\* written when the text differs from the engine's cached text
setCombatCcs(c, e, ccsContents) ==
  IF ccsContents # c.cachedCcsContents[e]
  THEN [ c EXCEPT !.file = ccsContents,
                  !.cachedCcsContents[e] = ccsContents ]
  ELSE c

Ccs(op, e, text, c) ==
  /\ ccs.ops < MaxCcsOps
  /\ ccs' = [ c EXCEPT !.ops = @ + 1,
                       !.last = [ op |-> op, engine |-> e, text |-> text,
                                  file |-> ccs.file,
                                  cached |-> ccs.cachedCcsContents[e],
                                  wrote |-> IF e \in ccs.built
                                            THEN ccs.wrote[e] ELSE "" ],
                       !.wrote[e] = IF op = "setCombat"
                                       /\ text # ccs.cachedCcsContents[e]
                                    THEN text ELSE @ ]
  /\ UNCHANGED <<engineVars, outfitVars, combatVars, dressVars, effectVars,
                 itemVars, cachedCcsContents, propertyManager, properties,
                 autoAttack, lifeOps, lastLife, run, taskVars, player>>

\* new Engine(tasks)
CallNewEngine(e) ==
  /\ e \notin ccs.built
  /\ Ccs("new", e, "", construct(ccs, e))

\* engine.setCombat(task, ...) within execute(task)
CallSetCombat(e, ccsContents) ==
  /\ e \in ccs.built
  /\ Ccs("setCombat", e, ccsContents, setCombatCcs(ccs, e, ccsContents))

\* the file is empty or holds what an earlier run left
InitCcs ==
  /\ InitEngineIdle
  /\ InitOutfitIdle
  /\ InitCombatIdle
  /\ InitDressIdle
  /\ InitEffectsIdle
  /\ InitItemsIdle
  /\ InitRunIdle
  /\ InitTasksIdle
  /\ InitCurrentIdle
  /\ cachedCcsContents = "unused"
  /\ propertyManager = "unused"
  /\ properties = "unused"
  /\ autoAttack = 0
  /\ lastLife = "unused"
  /\ lifeOps = 0
  /\ \E text \in CcsTexts \cup {""} :
       ccs = [ file |-> text, cachedCcsContents |-> [e \in Engines |-> ""],
               built |-> {}, wrote |-> [e \in Engines |-> ""], ops |-> 0,
               last |-> [ op |-> "none", engine |-> 0, text |-> "",
                          file |-> text, cached |-> "", wrote |-> "" ] ]

NextCcs ==
  \/ \E e \in Engines : CallNewEngine(e)
  \/ \E e \in Engines, ccsContents \in CcsTexts : CallSetCombat(e, ccsContents)

SpecCcs == InitCcs /\ [][NextCcs]_vars

----------------------------------------------------------------------------
(* Engine.run(actions) *)

MaxRunCalls == 2

\* the values of the actions argument; Undef is run() without a count
RunCounts == {Undef, 0, 1, 2}

\* an execute() call that has ended by throwing
executeThrew == result \in {"raised", "tries", "soft", "turns", "unready",
                            "completed", "guard"}

\* the loop test, were it i <= actions
runContinuesInclusive(i, actions) == actions = Undef \/ i <= actions

\* the loop test i < (actions ?? Infinity)
runContinues(i, actions) == actions = Undef \/ i < actions

\* run(actions) is called on an engine that is not running
CallRun(actions) ==
  /\ pc = "idle" /\ run.state # "loop"
  /\ run.calls < MaxRunCalls
  /\ run' = [ state |-> "loop", actions |-> actions, i |-> 0,
              executed |-> <<>>, calls |-> run.calls + 1 ]
  /\ cur' = 0
  /\ result' = "none"
  /\ log' = <<>>
  /\ UNCHANGED <<tasks, attempts, world, pc, postcondition, hist, outfitVars,
                 combatVars, dressVars, effectVars, itemVars, lifeVars, taskVars, player>>

\* an iteration: const task = this.getNextTask(); this.execute(task)
RunExecute ==
  /\ run.state = "loop" /\ pc = "idle" /\ ~executeThrew
  /\ runContinues(run.i, run.actions)
  /\ getNextTask > 0
  /\ TotalCalls < MaxCalls
  /\ run' = [run EXCEPT !.i = @ + 1, !.executed = Append(@, getNextTask)]
  /\ cur' = getNextTask
  /\ pc' = ExecuteOrder[1]
  /\ log' = <<>>
  /\ result' = "running"
  /\ calls' = [calls EXCEPT ![tasks[getNextTask].name] = @ + 1]
  /\ startAttempts' = attempts[tasks[getNextTask].name]
  /\ postcondition' = "undefined"
  /\ UNCHANGED <<tasks, attempts, world, threw, outfitVars, combatVars,
                 dressVars, effectVars, itemVars, lifeVars, taskVars, player>>

\* the loop ends: the count is used up, or if (!task) return
RunReturn ==
  /\ run.state = "loop" /\ pc = "idle" /\ ~executeThrew
  /\ ~runContinues(run.i, run.actions) \/ getNextTask = 0
  /\ run' = [run EXCEPT !.state = "returned"]
  /\ UNCHANGED <<engineVars, outfitVars, combatVars, dressVars, effectVars,
                 itemVars, lifeVars, taskVars, player>>

\* an error of execute(), or of getNextTask(), leaves run()
RunRaise ==
  /\ run.state = "loop" /\ pc = "idle"
  /\ executeThrew \/ (runContinues(run.i, run.actions) /\ getNextTask < 0)
  /\ run' = [run EXCEPT !.state = "raised"]
  /\ UNCHANGED <<engineVars, outfitVars, combatVars, dressVars, effectVars,
                 itemVars, lifeVars, taskVars, player>>

InitRun ==
  /\ InitEngine
  /\ InitOutfitIdle
  /\ InitCombatIdle
  /\ InitDressIdle
  /\ InitEffectsIdle
  /\ InitItemsIdle
  /\ InitLifeIdle
  /\ InitTasksIdle
  /\ InitCurrentIdle
  /\ run = [ state |-> "new", actions |-> Undef, i |-> 0, executed |-> <<>>,
             calls |-> 0 ]

NextRun ==
  \/ \E actions \in RunCounts : CallRun(actions)
  \/ RunExecute
  \/ RunReturn
  \/ RunRaise
  \/ Guard
  \/ AcquireItems
  \/ AcquireEffects
  \/ CloneCombat
  \/ CreateOutfit
  \/ Customize
  \/ Dress
  \/ SetCombat
  \/ SetChoices
  \/ PrepareResources
  \/ Prepare
  \/ Do
  \/ RepeatAdv
  \/ EndWhile
  \/ Post
  \/ MarkAttempt
  \/ CheckLimits
  \/ Raise

SpecRun == InitRun /\ [][NextRun]_vars

----------------------------------------------------------------------------
(* Engine.run() over tasks that all have limit.tries *)

\* a limit with tries only
TriesOnly(n) == Limit(n, Undef, Undef, FALSE, FALSE, FALSE, Undef)

\* task lists in which every task has a positive limit.tries
TriedLists ==
  { << Task("A", <<"B">>, FALSE, "callback", TriesOnly(1)),
       Task("B", <<>>, FALSE, "Indoors", TriesOnly(1)) >>,
    << Task("A", <<>>, TRUE, "Outdoors", TriesOnly(2)) >>,
    << Task("A", <<>>, FALSE, "callback", TriesOnly(1)),
       Task("B", <<>>, TRUE, "callback", TriesOnly(1)) >> }

InitTries ==
  /\ tasks \in TriedLists
  /\ attempts = [n \in TaskNames |-> Undef]
  /\ completed = [n \in TaskNames |-> FALSE]
  /\ ready \in [TaskNames -> BOOLEAN]
  /\ \A n \in TaskNames :
       (\A i \in 1..Len(tasks) : tasks[i].name = n => ~tasks[i].hasReady)
         => ready[n]
  /\ lastEncounter = ""
  /\ lastAdventure \in Locations \cup {NoLocation}
  /\ turnsSpent = [l \in Locations |-> 0]
  /\ cur = 0
  /\ pc = "idle"
  /\ postcondition = "undefined"
  /\ result = "none"
  /\ log = <<>>
  /\ calls = [n \in TaskNames |-> 0]
  /\ threw = {}
  /\ startAttempts = Undef
  /\ InitOutfitIdle
  /\ InitCombatIdle
  /\ InitDressIdle
  /\ InitEffectsIdle
  /\ InitItemsIdle
  /\ InitLifeIdle
  /\ InitTasksIdle
  /\ InitCurrentIdle
  /\ run = [ state |-> "new", actions |-> Undef, i |-> 0, executed |-> <<>>,
             calls |-> 0 ]

SpecTries == InitTries /\ [][NextRun]_vars

----------------------------------------------------------------------------
(* getTasks and verifyDependencies (src/route.ts) *)

\* names are sequences of characters: "Q/a" is <<"Q", "/", "a">>
slash == <<"/">>

\* after.includes("/")
includesSlash(name) == \E k \in 1..Len(name) : name[k] = "/"

\* the conditions quests and tasks are built from: each is a function of
\* the game, here a name looked up in the conditions that hold
Conditions == {"questDone", "questOpen", "taskDone", "taskOpen"}

\* a quest and a task as written by a script; Absent is a field left out
Quest(name, completed_, ready_, tasks_) ==
  [name |-> name, completed |-> completed_, ready |-> ready_, tasks |-> tasks_]
QuestTask(name, hasAfter, after, completed_, ready_) ==
  [ name |-> name, hasAfter |-> hasAfter, after |-> after,
    completed |-> completed_, ready |-> ready_ ]

\* a condition of a returned task: one made by getTasks ("or": () =>
\* quest() || task(), "and": () => quest() && task(), "quest": () =>
\* quest()), the task's own kept as it was ("own"), or undefined ("none")
Closure(kind, quest, own) == [kind |-> kind, quest |-> quest, own |-> own]

\* calling a condition of a returned task in a game where holds is true
callCondition(fn, holds) ==
  CASE fn.kind = "or" -> fn.quest \in holds \/ fn.own \in holds
    [] fn.kind = "and" -> fn.quest \in holds /\ fn.own \in holds
    [] fn.kind = "quest" -> fn.quest \in holds
    [] fn.kind = "own" -> fn.own \in holds

\* task.after?.map((after) => after.includes("/") ? after : quest/after)
renameAfter(quest, t) ==
  IF ~t.hasAfter THEN t.after
  ELSE [k \in 1..Len(t.after) |->
          IF includesSlash(t.after[k]) THEN t.after[k]
          ELSE quest.name \o slash \o t.after[k]]

\* the body of the inner loop up to the push: { ...task } with its name,
\* after, completed and ready replaced (implicitAfter is false)
rename(quest, t) ==
  [ name |-> quest.name \o slash \o t.name,
    hasAfter |-> t.hasAfter,
    after |-> renameAfter(quest, t),
    completed |-> IF quest.completed # Absent
                  THEN Closure("or", quest.completed, t.completed)
                  ELSE Closure("own", Absent, t.completed),
    ready |-> IF quest.ready # Absent /\ t.ready # Absent
              THEN Closure("and", quest.ready, t.ready)
              ELSE IF quest.ready # Absent
              THEN Closure("quest", quest.ready, Absent)
              ELSE IF t.ready # Absent THEN Closure("own", Absent, t.ready)
              ELSE Closure("none", Absent, Absent) ]

\* a loop body that writes the new name into the task it was given
storeInPlace(st, qi, ti, renamedTask) ==
  [ st EXCEPT !.result = Append(@, renamedTask),
              !.quests[qi].tasks[ti].name = renamedTask.name ]

\* result.push(renamedTask): renamedTask is an object of its own
store(st, qi, ti, renamedTask) ==
  [st EXCEPT !.result = Append(@, renamedTask)]

\* the two loops of getTasks, from task ti of quest qi
RECURSIVE QuestLoop(_, _, _)
QuestLoop(st, qi, ti) ==
  IF qi > Len(st.quests) THEN st
  ELSE IF ti > Len(st.quests[qi].tasks) THEN QuestLoop(st, qi + 1, 1)
  ELSE QuestLoop(store(st, qi, ti,
                       rename(st.quests[qi], st.quests[qi].tasks[ti])),
                 qi, ti + 1)

\* the first unknown dependency in the order of the loops of
\* verifyDependencies, from entry j of task i; <<>> when all are known
RECURSIVE UnknownFrom(_, _, _)
UnknownFrom(list, i, j) ==
  IF i > Len(list) THEN <<>>
  ELSE IF ~list[i].hasAfter \/ j > Len(list[i].after)
  THEN UnknownFrom(list, i + 1, 1)
  ELSE IF \A k \in 1..Len(list) : list[k].name # list[i].after[j]
  THEN <<"Unknown task dependency", list[i].after[j], list[i].name>>
  ELSE UnknownFrom(list, i, j + 1)

\* verifyDependencies(tasks): the error thrown, or <<>>
verifyDependencies(list) == UnknownFrom(list, 1, 1)

\* getTasks(quests): the input objects after the call, the list built, and
\* the error of verifyDependencies if it threw
getTasks(input) ==
  LET st == QuestLoop([quests |-> input, result |-> <<>>], 1, 1)
      error == verifyDependencies(st.result)
  IN [ quests |-> st.quests, result |-> st.result,
       res |-> IF error = <<>> THEN "done" ELSE "throw", error |-> error ]

CallGetTasks ==
  /\ lastTasks.op = "new"
  /\ LET r == getTasks(quests)
     IN /\ quests' = r.quests
        /\ lastTasks' = [ op |-> "getTasks", input |-> quests,
                          result |-> r.result, res |-> r.res,
                          error |-> r.error ]
  /\ UNCHANGED <<engineVars, outfitVars, combatVars, dressVars, effectVars,
                 itemVars, lifeVars, run, player>>

\* the after lists, task lists and quests of the scripts
AfterInputs ==
  { <<>>, << <<"a">> >>, << <<"b">>, <<"Q", "/", "a">> >>,
    << <<"R", "/", "a">> >>, << <<"a", "/", "b">> >> }

QuestTaskInputs ==
  { QuestTask(<<"a">>, FALSE, <<>>, "taskDone", Absent) }
    \cup { QuestTask(<<"b">>, TRUE, after, "taskDone", "taskOpen") :
             after \in AfterInputs }
    \cup { QuestTask(<<"a", "/", "b">>, TRUE, << <<"a">> >>, "taskDone",
                     Absent) }

QuestInputs ==
  { Quest(<<"Q">>, Absent, Absent, <<t>>) : t \in QuestTaskInputs }
    \cup { Quest(<<"Q">>, "questDone", "questOpen",
                 <<QuestTask(<<"a">>, FALSE, <<>>, "taskDone", Absent), t>>) :
             t \in QuestTaskInputs }
    \cup { Quest(<<"R">>, "questDone", Absent, <<t>>) : t \in QuestTaskInputs }
    \cup { Quest(<<"R">>, Absent, "questOpen", <<>>) }

InitTasks ==
  /\ InitEngineIdle
  /\ InitOutfitIdle
  /\ InitCombatIdle
  /\ InitDressIdle
  /\ InitEffectsIdle
  /\ InitItemsIdle
  /\ InitLifeIdle
  /\ InitRunIdle
  /\ InitCurrentIdle
  /\ quests \in {<<>>} \cup {<<q>> : q \in QuestInputs}
                       \cup {<<p, q>> : p \in QuestInputs, q \in QuestInputs}
  /\ lastTasks = [op |-> "new"]

NextTasks == CallGetTasks

SpecTasks == InitTasks /\ [][NextTasks]_vars

----------------------------------------------------------------------------
(* Outfit.current() *)

\* the player: myFamiliar(), equippedItem(slot) for every slot, the
\* familiar in the Crown of Thrones and the Buddy Bjorn when one is worn
\* (Absent when it is not), and getCurrentModes()
Player(familiar, equipment, enthroned, bjorned, modes) ==
  [ familiar |-> familiar, equipment |-> equipment, enthroned |-> enthroned,
    bjorned |-> bjorned, modes |-> modes ]

\* the loop of current() over outfitSlots from its i-th slot
RECURSIVE CurrentLoop(_, _, _, _)
CurrentLoop(b, o, p, i) ==
  IF i > Len(outfitSlots) THEN R("success", o)
  ELSE LET r == equipItem(b, o, p.equipment[outfitSlots[i]], outfitSlots[i])
       IN IF r.res # "success" THEN R("throw", r.o)
          ELSE CurrentLoop(b, r.o, p, i + 1)

\* Outfit.current(): if (outfit.equip(familiar)) throw ...
current(b, p) ==
  LET try_familiar == equipFamiliar(NewOutfit, p.familiar) IN
  IF try_familiar.res = "success" THEN R("throw", try_familiar.o)
  ELSE LET worn == CurrentLoop(b, try_familiar.o, p, 1) IN
       IF worn.res = "throw" THEN worn
       ELSE LET o == worn.o
                crowned == IF p.enthroned # Absent
                           THEN [o EXCEPT !.riders["crown-of-thrones"] = p.enthroned]
                           ELSE o
                ridden == IF p.bjorned # Absent
                          THEN [crowned EXCEPT !.riders["buddy-bjorn"] = p.bjorned]
                          ELSE crowned
            IN R("success", setModes(ridden, p.modes).o)

CallCurrent ==
  /\ lastEquip.op = "new"
  /\ LET r == current(build, player)
     IN /\ outfit' = r.o
        /\ lastEquip' = [op |-> "current", res |-> r.res, subs |-> <<>>]
  /\ ops' = ops + 1
  /\ UNCHANGED <<build, player, engineVars, combatVars, dressVars, effectVars,
                 itemVars, lifeVars, run, taskVars>>

\* what a player can be wearing: owned items in their own slots, a second
\* sword in the off-hand, familiar equipment only on a familiar
Equipments ==
  { e \in [SlotSet -> {"none", "helmet", "sword", "bow", "shield", "ring",
                       "charm", "leash"}] :
      /\ e["hat"] \in {"none", "helmet"}
      /\ e["weapon"] \in {"none", "sword", "bow"}
      /\ e["off-hand"] \in {"none", "shield", "sword"}
      /\ e["off-hand"] = "sword" => e["weapon"] = "sword"
      /\ e["acc1"] \in {"none", "ring"}
      /\ e["acc2"] \in {"none", "charm"}
      /\ e["acc3"] \in {"none", "ring"}
      /\ e["familiar"] \in {"none", "leash"} }

Players ==
  { Player(familiar, equipment, enthroned, bjorned, modes) :
      familiar \in {"none", "Mosquito", "Left-Hand Man"},
      equipment \in Equipments,
      enthroned \in {Absent, "Disembodied Hand"},
      bjorned \in {Absent},
      modes \in {NoModes} \cup {m \in ModeInputs : m.parka # Absent} }

InitCurrent ==
  /\ InitEngineIdle
  /\ InitCombatIdle
  /\ InitDressIdle
  /\ InitEffectsIdle
  /\ InitItemsIdle
  /\ InitLifeIdle
  /\ InitRunIdle
  /\ InitTasksIdle
  /\ build \in Builds
  /\ outfit = NewOutfit
  /\ ops = 0
  /\ lastEquip = [op |-> "new", res |-> "success", subs |-> <<>>]
  /\ player \in {p \in Players :
                   p.familiar = "none" => p.equipment["familiar"] = "none"}

NextCurrent == CallCurrent

SpecCurrent == InitCurrent /\ [][NextCurrent]_vars

----------------------------------------------------------------------------
(* Outfit.equipRider with a ranked list of familiars *)

\* targets.find(f => have(f) && this.familiar !== f &&
\* !otherRiders.includes(f)) from the i-th target; Absent when none is found
RECURSIVE findRider(_, _, _, _)
findRider(o, targets, slot, i) ==
  IF i > Len(targets) THEN Absent
  ELSE IF /\ haveFamiliar(targets[i]) /\ o.familiar # targets[i]
          /\ \A key \in riderSlots \ {slot} : o.riders[key] # targets[i]
       THEN targets[i]
       ELSE findRider(o, targets, slot, i + 1)

\* equipRider, were it to take the first target that is owned
equipRiderOwned(o, targets, slot) ==
  LET riding == o.riders[slot]
      owns == {k \in 1..Len(targets) : haveFamiliar(targets[k])}
  IN IF riding # Absent
     THEN IF includes(targets, riding) THEN R("success", o) ELSE R("fail", o)
     ELSE IF owns # {}
          THEN R("success",
                 [o EXCEPT !.riders[slot] =
                    targets[CHOOSE k \in owns : \A j \in owns : k <= j]])
          ELSE R("fail", o)

\* Outfit.equipRider(target, slot), target being an array
equipRiderArray(o, targets, slot) ==
  LET riding == o.riders[slot]
      fam == findRider(o, targets, slot, 1)
  IN IF riding # Absent
     THEN IF includes(targets, riding) THEN R("success", o) ELSE R("fail", o)
     ELSE IF fam # Absent
          THEN R("success", [o EXCEPT !.riders[slot] = fam])
          ELSE R("fail", o)

\* outfit.bjornify(targets), outfit.enthrone(targets)
CallRiders(targets, slot) ==
  /\ ops < MaxOps
  /\ ops' = ops + 1
  /\ LET r == equipRiderArray(outfit, targets, slot)
     IN /\ outfit' = r.o
        /\ lastEquip' = [ op |-> "riders", res |-> r.res, subs |-> <<>>,
                          targets |-> targets, slot |-> slot,
                          before |-> outfit ]
  /\ UNCHANGED <<build, engineVars, restVars>>

\* the ranked lists given to bjornify and enthrone
RiderLists ==
  { <<>>, <<"Mosquito">>, <<"Parrot">>, <<"Left-Hand Man", "Mosquito">>,
    <<"Parrot", "Mosquito">>, <<"Mosquito", "Disembodied Hand">>,
    <<"Parrot", "Mosquito", "Left-Hand Man">>,
    <<"Mosquito", "Left-Hand Man", "Disembodied Hand">> }

InitRiders ==
  /\ InitEngineIdle
  /\ InitRestIdle
  /\ build \in Builds
  /\ outfit = NewOutfit
  /\ ops = 0
  /\ lastEquip = [op |-> "new", res |-> "success", subs |-> <<>>]

NextRiders ==
  \/ \E familiar \in Familiars : CallEquipFamiliar(familiar)
  \/ \E targets \in RiderLists, slot \in riderSlots : CallRiders(targets, slot)

SpecRiders == InitRiders /\ [][NextRiders]_vars

----------------------------------------------------------------------------
(* Outfit.setModes over the values a Modes object can carry *)

\* the Modes objects given to setModes: a mode may be left out, given, or
\* given as undefined (parka: undefined), as the optional fields allow
ModeRequests ==
  ModeInputs \cup { NoModes, Parka(ExplicitUndefined),
                    Retrocape("robot", Absent), Retrocape(Absent, "kill"),
                    [Parka("dilophosaur") EXCEPT !.retrocape = TRUE,
                                                 !.retro0 = "heck"] }

NextModes == \E modes \in ModeRequests : CallSetModes(modes)

SpecModes == InitOutfit /\ [][NextModes]_vars

----------------------------------------------------------------------------
(* Outfit.tryEquip of items and specs *)

\* Outfit.tryEquip(spec): canEquip(spec) && equip(spec), on the outfit as
\* canEquip leaves it
tryEquipSpec(b, o, spec) ==
  LET can == canEquipSpec(b, o, spec) IN
  IF can.res = "success" THEN equipSpec(b, can.o, spec)
  ELSE [res |-> can.res, o |-> can.o, subs |-> <<>>]

Try(kind, item, slot, spec, r) ==
  /\ ops < MaxOps
  /\ ops' = ops + 1
  /\ outfit' = r.o
  /\ lastEquip' = [ op |-> "try", res |-> r.res, subs |-> <<>>,
                    kind |-> kind, item |-> item, slot |-> slot,
                    spec |-> spec, before |-> outfit ]
  /\ UNCHANGED <<build, engineVars, restVars>>

\* outfit.tryEquip(item, slot)
CallTryEquipItem(item, slot) ==
  Try("item", item, slot, OutfitSpec(NoSlots, <<>>, Absent, {}, FALSE,
                                     NoModes, Absent, Absent),
      tryEquip(build, outfit, item, slot))

\* outfit.tryEquip(spec)
CallTryEquipSpec(spec) ==
  Try("spec", "none", Absent, spec, tryEquipSpec(build, outfit, spec))

NextTry ==
  \/ \E item \in TryItems, slot \in TrySlots : CallTryEquipItem(item, slot)
  \/ \E spec \in Specs : CallTryEquipSpec(spec)
  \/ \E modes \in ModeInputs : CallSetModes(modes)

SpecTry == InitOutfit /\ [][NextTry]_vars

----------------------------------------------------------------------------
(* Properties of the engine *)

\* an execute() call has ended, by returning or by throwing
Finished == pc = "idle" /\ cur # 0

LimitErrors == {"tries", "soft", "turns", "unready", "completed", "guard"}

Available == {i \in 1..Len(tasks) : available(tasks[i]) = "true"}
Throwing == {i \in 1..Len(tasks) : available(tasks[i]) = "throw"}
Least(S) == CHOOSE x \in S : \A y \in S : x <= y

KnownAfter(t) == \A k \in 1..Len(t.after) : tasks_by_name(t.after[k]) # 0
SkipReached(t) ==
  t.limit.skip # Undef /\ GreaterEq(attempts[t.name], t.limit.skip)

\* C1: whenever getNextTask() returns, it returns the first task in
\* declaration order for which available() is true, and undefined (0) when
\* there is none; it throws exactly when a task with an unknown dependency
\* is scanned before any available one.  With tasks [A(after=[B]), B], B
\* without dependencies: B is returned while B is incomplete, and A once B
\* is completed and A is incomplete and ready.
C1_GetNextTaskFirstAvailable ==
  /\ getNextTask >= 0 =>
       getNextTask = IF Available = {} THEN 0 ELSE Least(Available)
  /\ getNextTask < 0 <=> \E i \in Throwing : \A j \in Available : i < j
  /\ ( /\ tasks[1].after = <<tasks[2].name>> /\ tasks[2].after = <<>>
       /\ ~tasks[2].hasReady /\ ~SkipReached(tasks[1])
       /\ ~SkipReached(tasks[2]) )
     => /\ ~completed[tasks[2].name] => getNextTask = 2
        /\ ( /\ completed[tasks[2].name] /\ ~completed[tasks[1].name]
             /\ (tasks[1].hasReady => ready[tasks[1].name]) )
           => getNextTask = 1

\* C1 witness: B was executed and completed, and A is now the next task
C1_Witness ==
  /\ tasks[1].after = <<tasks[2].name>> /\ tasks[2].after = <<>>
  /\ calls[tasks[2].name] > 0 /\ completed[tasks[2].name]
  /\ pc = "idle" /\ getNextTask = 1

C3_OnlyDirectDependencies ==
  \A i \in 1..Len(tasks) :
    LET t == tasks[i] IN
    ( /\ KnownAfter(t)
      /\ \A k \in 1..Len(t.after) : completed[t.after[k]]
      /\ ~completed[t.name]
      /\ t.hasReady => ready[t.name]
      /\ ~SkipReached(t) )
    => available(t) = "true"

\* C3 witness: A(after=[B]), B(after=[C]), B complete, C not, A available
C3_Witness ==
  /\ tasks[1].after = <<tasks[2].name>>
  /\ tasks[2].after = <<tasks[3].name>>
  /\ completed[tasks[2].name] /\ ~completed[tasks[3].name]
  /\ available(tasks[1]) = "true"

AsNumber(a) == IF a = Undef THEN 0 ELSE a

\* C4 as amended: an execute() call none of whose steps throws increments
\* the task's attempt counter by exactly one, whether or not the task then
\* completes and whether or not the body was repeated; a call in which a
\* step throws leaves the counter as it was.
C4_AttemptCountedUnlessThrown ==
  Finished =>
    IF result = "raised"
    THEN attempts[task.name] = startAttempts
    ELSE attempts[task.name] = AsNumber(startAttempts) + 1

\* C4 witness: a second attempt whose body was repeated after a wandering
\* noncombat
C4_Witness ==
  /\ Finished /\ result # "raised"
  /\ \E k \in 1..Len(log) : log[k] = "clear"
  /\ startAttempts = 1 /\ attempts[task.name] = 2

\* C4 as stated: every execute() call increments the counter by one, also
\* when a step of the pipeline throws
C4_AttemptCountedAlways ==
  Finished => attempts[task.name] = AsNumber(startAttempts) + 1

\* a task whose only limit is tries
OnlyTries(t) ==
  /\ t.limit.present /\ t.limit.tries >= 1
  /\ t.limit.soft = Undef /\ t.limit.turns = Undef /\ t.limit.skip = Undef
  /\ ~t.limit.unready /\ ~t.limit.completed /\ ~t.limit.guard

\* C5: for a task whose only limit is tries = n and which does not complete,
\* none of the first n-1 execute() calls ends in a limit error, and the n-th
\* call (none having thrown) ends in the "did not complete within n attempts"
\* error.
C5_TriesLimit ==
  (Finished /\ OnlyTries(task) /\ ~completed[task.name]) =>
    /\ calls[task.name] < task.limit.tries => result \notin LimitErrors
    /\ (calls[task.name] = task.limit.tries /\ task.name \notin threw)
         => result = "tries"

\* C5 witness: the third call of the task with tries = 3
C5_Witness ==
  /\ Finished /\ OnlyTries(task) /\ ~completed[task.name]
  /\ task.limit.tries = Tries /\ calls[task.name] = Tries
  /\ result = "tries"

\* C6 as amended: when the task is completed after the body and post() have
\* run, execute() raises no tries, soft, turns, unready or completed error;
\* the guard's postcondition is still evaluated, and its failure is raised.
C6_NoLimitsWhenCompleted ==
  (Finished /\ result # "raised" /\ completed[task.name]) =>
    result = IF task.limit.guard /\ lastEncounter = postcondition
             THEN "guard" ELSE "ok"

\* C6 witness: a completed task that has used up its tries
C6_Witness ==
  /\ Finished /\ completed[task.name] /\ result = "ok"
  /\ Truthy(task.limit.tries)
  /\ GreaterEq(attempts[task.name], task.limit.tries)

\* C6 as stated: a completed task raises no limit error of any kind, the
\* guard's failure included
C6_NoErrorWhenCompleted ==
  (Finished /\ result # "raised" /\ completed[task.name]) => result = "ok"

NotBookkeeping(s) == s \notin {"clone", "clear"}
Repeat(x, n) == [k \in 1..n |-> x]

\* the steps of the claim, with n runs of the body
PipelineOrder(n) ==
  (IF task.limit.guard THEN <<"guard">> ELSE <<>>)
  \o << "acquireItems", "acquireEffects", "createOutfit", "customize",
        "dress", "setCombat", "setChoices", "resources", "prepare" >>
  \o Repeat("do", n)
  \o << "post", "markAttempt", "checkLimits" >>

\* C7: an execute() call in which nothing throws has performed, in this
\* order and each once but for the body: the guard's snapshot (if a guard is
\* given), item acquisition, effect acquisition, outfit construction, the
\* customize hook, dress, the macro, the choices, the resources' prepare(),
\* task.prepare(), the body (one or more runs), task.post(), the attempt
\* counter's increment, the limit and guard check.
C7_PipelineOrder ==
  (Finished /\ result # "raised") =>
    \E n \in 1..Len(log) :
      SelectSeq(log, NotBookkeeping) = PipelineOrder(n)

\* C7 witness: a call with a guard and two runs of the body
C7_Witness ==
  /\ Finished /\ result # "raised" /\ task.limit.guard
  /\ SelectSeq(log, NotBookkeeping) = PipelineOrder(2)

WanderingNames ==
  wanderingNCs \cup DOMAIN environmentSpecificNCs \cup DOMAIN zoneSpecificNCs

\* C8: after a run of the body, a task whose do is a callback is not
\* repeated, and a body run that left no wandering noncombat in the
\* last-encounter record ends the repetition; a repetition clears the record
\* and runs the body, and nothing else happens between two body runs.
C8_WanderingRepeat ==
  cur # 0 =>
    /\ (pc = "while" /\ task.do = "callback") => ~shouldRepeatAdv(task)
    /\ (pc = "while" /\ lastEncounter \notin WanderingNames)
         => ~shouldRepeatAdv(task)
    /\ \A k \in 1..Len(log) :
         log[k] = "clear" =>
           /\ k > 1 /\ log[k - 1] = "do"
           /\ k < Len(log) => log[k + 1] \in {"do", "throw"}
    /\ \A k \in 1..Len(log) :
         (log[k] = "do" /\ k > 1) => log[k - 1] \in {"prepare", "clear"}

----------------------------------------------------------------------------
(* Properties of the outfit *)

SlotArgs == SlotSet \cup {Absent}

\* C9: for every outfit state, item and optional slot, a second
\* equip(item, slot) ends as the first did (success, failure or the same
\* exception) and leaves the outfit exactly as the first call left it; an
\* item already in the requested slot (or anywhere, without a slot) is a
\* success that changes nothing.
C9_EquipItemIdempotent ==
  \A item \in Items, slot \in SlotArgs :
    LET first == equipItem(build, outfit, item, slot)
        second == equipItem(build, first.o, item, slot)
    IN /\ second.res = first.res
       /\ second.o = first.o
       /\ haveEquipped(outfit, item, slot) =>
            first.res = "success" /\ first.o = outfit

\* C9 witness: on an outfit that already holds equipment, a first call that
\* places an item and a second that finds it placed
C9_Witness ==
  /\ ops > 0
  /\ \E s \in SlotSet : outfit.equips[s] \notin {Absent, "none"}
  /\ \E item \in Items \ {"none"}, slot \in SlotArgs :
       LET first == equipItem(build, outfit, item, slot) IN
       /\ first.res = "success" /\ first.o # outfit
       /\ haveEquipped(first.o, item, slot)
       /\ equipItem(build, first.o, item, slot) = first

\* the placement a sub-placement asked for is in the outfit
Committed(o, spec, st) ==
  CASE st.kind = "slot" -> o.equips[st.slot] = st.thing
    [] st.kind = "equip" ->
         st.thing = "none" \/ equippedAmount(o, st.thing) > 0
    [] st.kind = "familiar" -> o.familiar = st.thing
    [] st.kind = "avoid" -> spec.avoid \subseteq o.avoid
    [] st.kind = "modes" ->
         /\ spec.modes.parka # Absent => o.modes.parka = spec.modes.parka
         /\ spec.modes.retro0 # Absent => o.modes.retro0 = spec.modes.retro0
         /\ spec.modes.retro1 # Absent => o.modes.retro1 = spec.modes.retro1
    [] st.kind = "rider" -> o.riders[st.slot] = st.thing

\* C10: whenever a sub-placement of equip(spec) fails, equip(spec) returns
\* failure, and every sub-placement of it that succeeded is committed in the
\* outfit afterwards.
C10_SpecNonAtomic ==
  lastEquip.op = "spec" =>
    /\ (\E k \in 1..Len(lastEquip.subs) : lastEquip.subs[k].res = "fail")
         => lastEquip.res = "fail"
    /\ \A k \in 1..Len(lastEquip.subs) :
         lastEquip.subs[k].res = "success" =>
           \E spec \in Specs :
             /\ k <= Len(SpecSteps(spec))
             /\ SpecSteps(spec)[k] = lastEquip.subs[k].step
             /\ Committed(outfit, spec, lastEquip.subs[k].step)

\* the entries of an array that equip(entry, slot) would place on outfit o
Placeable(b, o, things, slot) ==
  {k \in 1..Len(things) : equipItem(b, o, things[k], slot).res = "success"}
Throwers(b, o, things, slot) ==
  {k \in 1..Len(things) : equipItem(b, o, things[k], slot).res = "throw"}

\* C11: equip(array) without a slot succeeds iff every entry is equipped; it
\* stops at the first entry that is not, and keeps the earlier placements.
\* equip(array, slot) succeeds iff some entry can be equipped in that slot;
\* the first such entry in list order is the one placed and no later entry
\* is tried (for a non-empty array).  An empty array succeeds in both forms.
C11_ArrayEquip ==
  lastEquip.op = "array" =>
    LET things == lastEquip.things
        slot == lastEquip.slot
        before == lastEquip.before
        subs == lastEquip.subs
        n == Len(subs)
        ok(k) == subs[k].res = "success"
    IN /\ things = <<>> => lastEquip.res = "success" /\ outfit = before
       /\ n <= Len(things)
       /\ \A k \in 1..n : subs[k].thing = things[k]
       /\ slot = Absent =>
            /\ lastEquip.res = "success" <=>
                 (n = Len(things) /\ \A k \in 1..n : ok(k))
            /\ \A k \in 1..n : k < n => ok(k)
            /\ \A k \in 1..n : ok(k) => haveEquipped(outfit, things[k], Absent)
                                        \/ things[k] = "none"
            /\ \A k \in (n + 1)..Len(things) :
                 equippedAmount(outfit, things[k])
                   = equippedAmount(
                       ArrayLoop(build, before, SubSeq(things, 1, n), Absent,
                                 "every", 1, <<>>).o, things[k])
       /\ (slot # Absent /\ things # <<>>) =>
            LET can == Placeable(build, before, things, slot)
                first == Least(can)
            IN /\ lastEquip.res = "success" <=>
                    /\ can # {}
                    /\ \A t \in Throwers(build, before, things, slot) :
                         first < t
               /\ lastEquip.res = "success" =>
                    /\ n = first
                    /\ outfit
                         = equipItem(build, before, things[first], slot).o
               /\ lastEquip.res # "success" => outfit = before

\* C11 witness, without a slot: the third entry fails after two placements
C11_Witness ==
  /\ lastEquip.op = "array" /\ lastEquip.slot = Absent
  /\ lastEquip.res = "fail" /\ Len(lastEquip.subs) = 3
  /\ Len(lastEquip.things) = 4
  /\ outfit # lastEquip.before
  /\ \E k \in 1..2 : ~haveEquipped(lastEquip.before, lastEquip.things[k], Absent)

RealItems == Items \ {"none"}

\* no slot of the outfit holds more copies than are owned, or two of a
\* single-equip item
WithinOwnership ==
  \A item \in RealItems :
    /\ equippedAmount(outfit, item) <= owned[item]
    /\ singleEquip(item) => equippedAmount(outfit, item) <= 1

\* a call places no item that was on the avoid list when the call began
\* (equipSpec extends the avoid list only after its item placements)
PlacesNoAvoided ==
  \A s \in SlotSet :
    (outfit'.equips[s] # outfit.equips[s] /\ outfit'.equips[s] \in RealItems)
      => outfit'.equips[s] \notin outfit.avoid

\* C12: after any sequence of equip, equipFirst and tryEquip calls, every
\* real item is held in at most as many slots as copies are owned, in at
\* most one slot if it is single-equip, and no call places an item that is
\* on the avoid list at that moment.
C12_OwnershipRespected == [](WithinOwnership) /\ [][PlacesNoAvoided]_vars

\* C12 witness: a second copy of the single-equip charm was just refused
\* although two are owned and an accessory slot is free
C12_Witness ==
  /\ build = "main" /\ ops = 2
  /\ lastEquip.op \in {"item", "try"} /\ lastEquip.res = "fail"
  /\ equippedAmount(outfit, "charm") = 1 /\ owned["charm"] = 2
  /\ ~has(outfit, "acc3")
  /\ ~isAvailable(outfit, "charm")

\* C13: after any sequence of equip, bjornify and enthrone calls on a new
\* outfit, the two rider slots do not hold the same familiar, and neither
\* holds the outfit's familiar.
C13_RidersDistinct ==
  /\ outfit.riders["buddy-bjorn"] # Absent
       => outfit.riders["buddy-bjorn"] # outfit.riders["crown-of-thrones"]
  /\ \A s \in riderSlots :
       outfit.riders[s] # Absent => outfit.riders[s] # outfit.familiar

\* C13 witness: the bjorn's rider was just refused for the crown, which
\* another familiar could still take
C13_Witness ==
  /\ outfit.riders["buddy-bjorn"] = "Mosquito"
  /\ outfit.riders["crown-of-thrones"] = Absent
  /\ lastEquip.op = "rider" /\ lastEquip.res = "fail"
  /\ equipRider(outfit, "Mosquito", "crown-of-thrones").res = "fail"
  /\ equipRider(outfit, "Left-Hand Man", "crown-of-thrones").res = "success"

\* C14: canEquip(thing, slot) does not change the outfit it is called on:
\* every field (equips, familiar, riders, modes with both retrocape parts,
\* avoid) is after the call what it was before.
C14_CanEquipChangesNothing ==
  lastEquip.op = "can" => outfit = lastEquip.before

----------------------------------------------------------------------------
(* Properties of the combat strategy *)

\* the last call was macro(...) or action(...) on a clone
OnClone == lastCombat.target # 0 /\ lastCombat.op \in {"macro", "action"}

\* C15: a clone is an independent deep copy of the strategy: a macro(...)
\* or action(...) call on the clone is carried out and leaves the template's
\* per-monster macros, per-monster actions and general macros as they were
C15_CloneIndependent ==
  OnClone =>
    /\ lastCombat.res = "success"
    /\ View(strategy, heap).macros = lastCombat.before.macros
    /\ View(strategy, heap).actions = lastCombat.before.actions
    /\ View(strategy, heap).default_macro = lastCombat.before.default_macro

\* the last call was a compile that returned
Compiles == lastCombat.op = "compile" /\ lastCombat.res = "success"

\* the strategy that was compiled, and the macro it compiled to
Subject == View(Receiver(lastCombat.target), heap)

Output == lastCombat.compiled.result

\* the rendered text of every monster's macros, in the Map's order
MacroBodies ==
  [ i \in 1..Len(Subject.macros) |->
      toString(step(<<>>, mapUndelay(Subject.macros[i].value))) ]

\* the rendered text every monster's action resolves to, "" when to nothing
ActionBodies ==
  [ i \in 1..Len(Subject.actions) |->
      toString(step(<<>>, resolve(lastCombat.resources, lastCombat.defaults,
                                  Subject.actions[i].value,
                                  OfMonster(Subject.actions[i].key)))) ]

Texts(bodies) == {bodies[i] : i \in 1..Len(bodies)} \ {""}

\* the monsters of a Map whose body is the text t, in the Map's order
RECURSIVE Sharers(_, _, _, _)
Sharers(map, bodies, t, i) ==
  IF i > Len(map) THEN <<>>
  ELSE (IF bodies[i] = t THEN <<map[i].key>> ELSE <<>>)
       \o Sharers(map, bodies, t, i + 1)

\* the line that opens a conditional on these monsters
Opening(monsters) == "if " \o join(monsterids(monsters), " || ")

MonsterLists ==
  { l \in UNION {[1..n -> Monsters] : n \in 1..Cardinality(Monsters)} :
      \A i, j \in 1..Len(l) : i # j => l[i] # l[j] }

\* the conditionals of the output: the places of their opening lines
Branches ==
  {i \in 1..Len(Output) : \E l \in MonsterLists : Output[i] = Opening(l)}

\* the k-th conditional of the output
RECURSIVE Nth(_, _)
Nth(places, k) ==
  LET first == CHOOSE i \in places : \A j \in places : i <= j
  IN IF k = 1 THEN first ELSE Nth(places \ {first}, k - 1)

\* C16: compile emits one conditional per distinct body text, guarded by
\* the monster-id checks of all the monsters whose resolved body has that
\* text, and no two emitted conditionals have the same body
C16_OneBranchPerBody ==
  Compiles =>
    /\ \A i, j \in Branches : i # j => Output[i + 1] # Output[j + 1]
    /\ \A t \in Texts(MacroBodies) \cup Texts(ActionBodies) :
         \E i \in Branches, l \in MonsterLists :
           /\ Output[i] = Opening(l) /\ Output[i + 1] = t /\ Output[i + 2] = "endif"
           /\ {l[n] : n \in 1..Len(l)} =
                {Subject.macros[n].key :
                   n \in {m \in 1..Len(MacroBodies) : MacroBodies[m] = t}}
                \cup {Subject.actions[n].key :
                   n \in {m \in 1..Len(ActionBodies) : ActionBodies[m] = t}}

\* C16, amended: the monsters' macros and the monsters' actions are grouped
\* apart. The output's conditionals are first one per distinct non-empty
\* text of the monsters' macros, then one per distinct non-empty text their
\* actions resolve to, each guarded by the monster-id checks of the monsters
\* sharing that text in that group; inside a group no two bodies are equal
C16_OneBranchPerBodyAndKind ==
  Compiles =>
    LET nm == Cardinality(Texts(MacroBodies))
        na == Cardinality(Texts(ActionBodies))
    IN /\ Cardinality(Branches) = nm + na
       /\ \A t \in Texts(MacroBodies) :
            \E k \in 1..nm :
              LET i == Nth(Branches, k)
              IN /\ Output[i] = Opening(Sharers(Subject.macros, MacroBodies, t, 1))
                 /\ Output[i + 1] = t
                 /\ Output[i + 2] = "endif"
       /\ \A t \in Texts(ActionBodies) :
            \E k \in (nm + 1)..(nm + na) :
              LET i == Nth(Branches, k)
              IN /\ Output[i] = Opening(Sharers(Subject.actions, ActionBodies, t, 1))
                 /\ Output[i + 1] = t
                 /\ Output[i + 2] = "endif"

\* two monsters whose macros differ in shape but render to one text share a
\* conditional, and a third monster has one of its own
C16_Witness ==
  /\ Compiles
  /\ \E i, j \in 1..Len(Subject.macros) :
       /\ i # j
       /\ MacroBodies[i] = MacroBodies[j]
       /\ Subject.macros[i].value # Subject.macros[j].value
  /\ Cardinality(Texts(MacroBodies)) = 2
  /\ Len(Subject.macros) = 3

\* the components of a list of macros, one macro after the other
RECURSIVE Components(_)
Components(list) ==
  IF list = <<>> THEN <<>>
  ELSE SelectSeq(list[1].macro, LAMBDA c : c # "") \o Components(Tail(list))

\* the conditionals of one group: for every monster of the Map that is the
\* first with its text, a conditional on all the monsters with that text
RECURSIVE Conditionals(_, _, _)
Conditionals(map, bodies, i) ==
  IF i > Len(map) THEN <<>>
  ELSE (IF bodies[i] # "" /\ \A j \in 1..(i - 1) : bodies[j] # bodies[i]
        THEN <<Opening(Sharers(map, bodies, bodies[i], 1)), bodies[i], "endif">>
        ELSE <<>>)
       \o Conditionals(map, bodies, i + 1)

\* what an action contributes: its resource's macro if one was provided,
\* else what the default generator of the action returns, else nothing
Contribution(action, target) ==
  LET resources == lastCombat.resources
      defaults == lastCombat.defaults
  IN IF \E i \in 1..Len(resources) : resources[i].key = action
     THEN LET r == mapGet(resources, action)
          IN IF r.kind = "item" THEN <<"use " \o r.name>>
             ELSE IF r.kind = "skill" THEN <<"skill " \o r.name>>
             ELSE r.macro
     ELSE IF defaults.defined
             /\ \E i \in 1..Len(defaults.map) : defaults.map[i].key = action
          THEN generate(mapGet(defaults.map, action), target)
          ELSE <<>>

\* C17: the compiled macro is, in this order, the starting macro (if any),
\* the monster-specific macros, the monster-specific actions, the general
\* macros in the order of their list (a prepended one goes to its front, any
\* other to its end) and the general action; an action contributes its
\* resource's macro, else its default generator's, else nothing
C17_CompileOrder ==
  /\ Compiles =>
       /\ Output =
            Components(Subject.starting_macro)
            \o Conditionals(Subject.macros, MacroBodies, 1)
            \o Conditionals(Subject.actions, ActionBodies, 1)
            \o Components(Subject.default_macro.list)
            \o (IF Subject.default_action = <<>> THEN <<>>
                ELSE Contribution(Subject.default_action[1],
                                  lastCombat.location))
       /\ \A i \in 1..Len(Subject.actions) :
            ActionBodies[i] =
              toString(Contribution(Subject.actions[i].value,
                                    OfMonster(Subject.actions[i].key)))
  /\ ( /\ lastCombat.op = "macro"
       /\ lastCombat.target = 0
       /\ lastCombat.res = "success"
       /\ ~lastCombat.monsters.given )
     => strategy.default_macro.list =
          IF lastCombat.prepend
          THEN <<lastCombat.macro>> \o lastCombat.before.default_macro.list
          ELSE lastCombat.before.default_macro.list \o <<lastCombat.macro>>

\* a compile of a strategy with all five parts, two general macros, and a
\* general action that has both a resource and a default generator
C17_Witness ==
  /\ Compiles
  /\ Subject.starting_macro # <<>>
  /\ Texts(MacroBodies) # {}
  /\ Texts(ActionBodies) # {}
  /\ Len(Subject.default_macro.list) >= 2
  /\ Subject.default_action # <<>>
  /\ mapHas(lastCombat.resources, Subject.default_action[1])
  /\ lastCombat.defaults.defined
  /\ mapHas(lastCombat.defaults.map, Subject.default_action[1])
  /\ \E i \in 1..Len(Subject.actions) :
       /\ ~mapHas(lastCombat.resources, Subject.actions[i].value)
       /\ mapHas(lastCombat.defaults.map, Subject.actions[i].value)

----------------------------------------------------------------------------
(* Properties of dress *)

Dressed == lastDress.op = "dress"

\* the target accessories of the outfit that was dressed
Wanted == accessoryEquips(lastDress.o)

\* how many of the first n entries of a list are the item a
Among(list, n, a) == Cardinality({k \in 1..n : k <= Len(list) /\ list[k] = a})

\* what the accessory slots held when dress() was called
WornBefore == [k \in 1..Len(accSlots) |-> lastDress.before.worn[accSlots[k]]]

\* the accessory slots whose item stays: a slot wearing a target accessory,
\* as far as the outfit wants copies of it
Kept ==
  { accSlots[k] : k \in { n \in 1..Len(accSlots) :
      Among(WornBefore, n, WornBefore[n]) <= Among(Wanted, Len(Wanted), WornBefore[n]) } }

\* the target accessories that are not worn yet, in the outfit's order
RECURSIVE Remaining(_)
Remaining(i) ==
  IF i > Len(Wanted) THEN <<>>
  ELSE (IF Among(Wanted, i, Wanted[i])
             > Among(WornBefore, Len(WornBefore), Wanted[i])
        THEN <<Wanted[i]>> ELSE <<>>) \o Remaining(i + 1)

\* the accessory slots that are not kept, in order
RECURSIVE Open(_)
Open(k) ==
  IF k > Len(accSlots) THEN <<>>
  ELSE (IF accSlots[k] \in Kept THEN <<>> ELSE <<accSlots[k]>>) \o Open(k + 1)

\* the equip calls that dress() made on accessory slots
AccessoryCalls ==
  SelectSeq(lastDress.log,
            LAMBDA c : c.call = "equip" /\ c.slot \in {"acc1", "acc2", "acc3"})

\* C18: dress() leaves every target accessory that is already worn in an
\* accessory slot where it is, with no equip call for that slot, and equips
\* each remaining target accessory into the first accessory slot that is
\* not claimed yet
C18_WornAccessoriesStay ==
  Dressed =>
    /\ \A s \in Kept :
         /\ game.worn[s] = lastDress.before.worn[s]
         /\ \A k \in 1..Len(AccessoryCalls) : AccessoryCalls[k].slot # s
    /\ Len(AccessoryCalls) = Len(Remaining(1))
    /\ \A k \in 1..Len(AccessoryCalls) :
         /\ AccessoryCalls[k].slot = Open(1)[k]
         /\ AccessoryCalls[k].item = Remaining(1)[k]
         /\ game.worn[Open(1)[k]] = Remaining(1)[k]

\* the ring was worn in slot 2 and the outfit wants the ring and the charm:
\* the ring is still in slot 2 and the charm went to slot 1
C18_Witness ==
  /\ Dressed
  /\ Wanted = <<"ring", "charm">>
  /\ WornBefore = <<"none", "ring", "none">>
  /\ game.worn["acc2"] = "ring"
  /\ game.worn["acc1"] = "charm"
  /\ Len(AccessoryCalls) = 1
  /\ lastDress.res = "done"

\* the places, in the log of the last dress(), of the calls of one kind
Places(call) == {k \in 1..Len(lastDress.log) : lastDress.log[k].call = call}

\* C19: one dress() invokes the maximizer at most twice. A first invocation
\* that fails is followed by one inventory refresh and one more invocation,
\* made with a forced update; when that one fails too dress() raises, and a
\* third invocation is never made
C19_MaximizeAtMostTwice ==
  Dressed =>
    LET tries == Places("maximize")
        refreshes == Places("refresh inventory")
        failed(n) == ~lastDress.outcomes[n]
    IN /\ Cardinality(tries) <= 2
       /\ \A k \in tries :
            lastDress.log[k].force <=> \E j \in tries : j < k
       /\ IF Cardinality(tries) >= 1 /\ failed(1)
          THEN /\ Cardinality(tries) = 2
               /\ Cardinality(refreshes) = 1
               /\ \A r \in refreshes :
                    /\ \E k \in tries : k < r
                    /\ \E k \in tries : k > r
               /\ failed(2) <=> ( /\ lastDress.res = "throw"
                                  /\ lastDress.error = "Failed to maximize properly!"
                                  /\ \A k \in tries : k + 1 \in refreshes
                                                      \/ k = Len(lastDress.log) )
          ELSE /\ Cardinality(tries) <= 1
               /\ refreshes = {}
               /\ lastDress.error # "Failed to maximize properly!"

\* both invocations failed and dress() raised
C19_Witness ==
  /\ Dressed
  /\ Cardinality(Places("maximize")) = 2
  /\ Cardinality(Places("refresh inventory")) = 1
  /\ lastDress.res = "throw"
  /\ lastDress.error = "Failed to maximize properly!"

----------------------------------------------------------------------------
(* Properties of the effect step *)

\* the songs among the effects the task asked for
Requested == SelectSeq(lastAcquire.effects, LAMBDA e : e \in Songs)

\* the song cap: 3, or 4 with Mariachi Memory
Cap == IF mariachi THEN 4 ELSE 3

\* C20: when the songs a task asks for alone exceed the song cap, the effect
\* step raises the too-many-songs error, and no effect has been removed or
\* applied
C20_TooManySongs ==
  lastAcquire.op = "acquireEffects" /\ Len(Requested) > Cap =>
    /\ lastAcquire.res = "throw"
    /\ lastAcquire.error = "Too many AT songs"
    /\ lastAcquire.removed = <<>>
    /\ lastAcquire.applied = <<>>
    /\ myEffects = lastAcquire.before

\* four songs asked for under a cap of three, with songs to shrug active
C20_Witness ==
  /\ lastAcquire.op = "acquireEffects"
  /\ ~mariachi
  /\ Len(Requested) = 4
  /\ \E k \in 1..Len(lastAcquire.before) :
       /\ lastAcquire.before[k] \in Songs
       /\ ~includes(Requested, lastAcquire.before[k])
  /\ lastAcquire.res = "throw"

----------------------------------------------------------------------------
(* Properties of the item step *)

\* the request a visit of the last acquireItems() call was about
Asked(v) == lastItems.acquire[v.i]

\* the request was short of copies when its turn came, and not ruled out
Wanting(v) ==
  /\ v.have < (IF Asked(v).num = Undef THEN 1 ELSE Asked(v).num)
  /\ Asked(v).useful # "false"

\* the request is still short after its acquisition, and is not optional
Failed(v) ==
  /\ Wanting(v)
  /\ v.after < (IF Asked(v).num = Undef THEN 1 ELSE Asked(v).num)
  /\ ~Asked(v).optional

\* C21: acquireItems raises, naming the task and the item, exactly when a
\* request that was short and not ruled out by useful() is still short after
\* its one acquisition (getter, else purchase, else fold, else retrieval) and
\* is not optional; a request that is satisfied or ruled out causes no
\* acquisition and no error
C21_UnableToAcquire ==
  lastItems.op = "acquireItems" =>
    LET log_ == lastItems.log
        n == Len(log_)
    IN /\ \A k \in 1..n : log_[k].i = k
       /\ n <= Len(lastItems.acquire)
       /\ \A k \in 1..n :
            IF Wanting(log_[k])
            THEN log_[k].action =
                   (IF Asked(log_[k]).get THEN "get"
                    ELSE IF Asked(log_[k]).price # Undef THEN "buy"
                    ELSE IF foldable(Asked(log_[k]).item) THEN "fold"
                    ELSE "retrieve")
            ELSE /\ log_[k].action = "none"
                 /\ log_[k].after = log_[k].have
       /\ \A k \in 1..(n - 1) : ~Failed(log_[k])
       /\ lastItems.res = "throw" <=> (n > 0 /\ Failed(log_[n]))
       /\ lastItems.res = "throw" =>
            lastItems.error =
              "Task " \o lastItems.task \o " was unable to acquire "
              \o ToString(IF Asked(log_[n]).num = Undef THEN 1
                          ELSE Asked(log_[n]).num)
              \o " " \o Asked(log_[n]).item
       /\ lastItems.res # "throw" => n = Len(lastItems.acquire)

\* a request ruled out by useful() is passed over although short, and the
\* next one, bought once, is still short and raises
C21_Witness ==
  /\ lastItems.op = "acquireItems"
  /\ Len(lastItems.log) = 2
  /\ lastItems.log[1].action = "none"
  /\ lastItems.log[1].have < 2
  /\ lastItems.acquire[1].useful = "false"
  /\ lastItems.log[2].action = "buy"
  /\ lastItems.log[2].after > lastItems.log[2].have
  /\ lastItems.res = "throw"

----------------------------------------------------------------------------
(* Properties of the engine's teardown *)

\* the properties are back at the values they had before the engine
Reverted ==
  /\ properties = lastLife.start
  /\ propertyManager = [p \in PropertyNames |-> Absent]

\* C22 (as stated): after destruct() the attempt-counter map is empty, the
\* cached compiled macro text is cleared and the setting overrides are
\* reverted
C22_DestructResetsAll ==
  lastLife.op = "destruct" =>
    /\ attempts = [n \in TaskNames |-> Undef]
    /\ cachedCcsContents = ""
    /\ Reverted

\* C22 (amended): after destruct() the setting overrides are reverted and the
\* auto-attack is off, while the attempt-counter map and the cached compiled
\* macro text are as they were before the call
C22_DestructResetsProperties ==
  lastLife.op = "destruct" =>
    /\ Reverted
    /\ autoAttack = 0
    /\ attempts = lastLife.before.attempts
    /\ cachedCcsContents = lastLife.before.cachedCcsContents

\* an engine that has counted attempts, cached a script text and overridden
\* a choice setting is torn down
C22_Witness ==
  /\ lastLife.op = "destruct"
  /\ \E n \in TaskNames : lastLife.before.attempts[n] = 2
  /\ lastLife.before.cachedCcsContents # ""
  /\ lastLife.before.properties["choiceAdventure1"] # lastLife.start["choiceAdventure1"]
  /\ lastLife.before.autoAttack # 0

----------------------------------------------------------------------------
(* Properties of the attempt counters over all engine steps *)

\* the counter of n goes from absent to 1, or up by one
CountedOnce(n) ==
  attempts'[n] = IF attempts[n] = Undef THEN 1 ELSE attempts[n] + 1

\* C23: a task's attempt counter is absent until its first counted attempt;
\* every change of a counter is an increase by exactly 1, made by
\* markAttempt for the task being executed, and no step of any engine
\* operation lowers, resets or removes a counter
C23_CountersMonotone ==
  [][ /\ \A n \in TaskNames : attempts'[n] = attempts[n] \/ CountedOnce(n)
      /\ attempts' # attempts =>
           /\ pc = "markAttempt"
           /\ \A n \in TaskNames : attempts'[n] # attempts[n] => n = task.name
      /\ (pc = "markAttempt" /\ pc' # pc) => CountedOnce(task.name)
      /\ \A n \in TaskNames : attempts[n] # Undef => attempts'[n] # Undef
    ]_vars

\* a task counted twice beside a task that was executed, threw, and so
\* still has no counter
C23_Witness ==
  /\ pc = "idle"
  /\ \E n \in TaskNames : attempts[n] = 2
  /\ \E m \in TaskNames : attempts[m] = Undef /\ calls[m] = 1 /\ m \in threw

----------------------------------------------------------------------------
(* Properties of Engine.run *)

\* run() is between two iterations, the last execute() having ended well
BetweenIterations == run.state = "loop" /\ pc = "idle" /\ ~executeThrew

\* an execute() call begins in this step
ExecuteBegins == calls' # calls

\* C24: run(n) executes at most n tasks and returns as soon as getNextTask()
\* yields no task; each iteration executes exactly the task getNextTask()
\* returns at that moment; when an execute raises, the error leaves run and
\* no further task is selected or executed
C24_RunLoop ==
  /\ [](run.actions # Undef
          => Len(run.executed) <= run.actions)
  /\ [](run.state = "returned"
          => \/ run.actions # Undef /\ Len(run.executed) = run.actions
             \/ getNextTask = 0)
  /\ [][ /\ (BetweenIterations /\ getNextTask = 0
               /\ (run.actions = Undef \/ Len(run.executed) < run.actions))
              => run'.state = "returned" /\ ~ExecuteBegins
         /\ ExecuteBegins
              => /\ BetweenIterations
                 /\ getNextTask > 0
                 /\ cur' = getNextTask
                 /\ calls' = [calls EXCEPT ![tasks[getNextTask].name] = @ + 1]
                 /\ run'.executed = Append(run.executed, getNextTask)
         /\ (run.state = "loop" /\ pc = "idle" /\ executeThrew)
              => run'.state = "raised" /\ ~ExecuteBegins
         /\ run.state = "raised" => ~ExecuteBegins
       ]_vars

\* run(2) has executed two tasks and returned although a task is available
C24_Witness ==
  /\ run.state = "returned" /\ run.actions = 2
  /\ Len(run.executed) = 2 /\ run.executed[1] # run.executed[2]
  /\ getNextTask > 0

\* run() without a count was left by the error of its second execute
C24_WitnessRaised ==
  /\ run.state = "raised" /\ run.actions = Undef
  /\ Len(run.executed) = 2 /\ executeThrew
  /\ getNextTask > 0

----------------------------------------------------------------------------
(* Properties of getTasks *)

\* the number of tasks of the quests before quest qi
RECURSIVE TasksBefore(_, _)
TasksBefore(input, qi) ==
  IF qi <= 1 THEN 0
  ELSE TasksBefore(input, qi - 1) + Len(input[qi - 1].tasks)

\* name with the quest's name and a slash put before it
Qualified(quest, name) == quest.name \o <<"/">> \o name

\* the returned task o is task t of quest q, renamed and re-conditioned
Renamed(o, q, t) ==
  /\ o.name = Qualified(q, t.name)
  /\ o.hasAfter = t.hasAfter
  /\ Len(o.after) = Len(t.after)
  /\ \A k \in 1..Len(t.after) :
       o.after[k] = IF "/" \in {t.after[k][c] : c \in 1..Len(t.after[k])}
                    THEN t.after[k] ELSE Qualified(q, t.after[k])
  /\ \A holds \in SUBSET Conditions :
       /\ callCondition(o.completed, holds)
            = ((q.completed # Absent /\ q.completed \in holds)
                 \/ t.completed \in holds)
       /\ (o.ready.kind = "none" \/ callCondition(o.ready, holds))
            = ((q.ready = Absent \/ q.ready \in holds)
                 /\ (t.ready = Absent \/ t.ready \in holds))
  /\ o.ready.kind = "none" <=> (q.ready = Absent /\ t.ready = Absent)

\* C25: getTasks(quests) lists the tasks of all quests in quest order then
\* task order, each renamed "Quest/Task", with every after name that has no
\* "/" prefixed by the quest name, completed being quest completed OR task
\* completed and ready being quest ready AND task ready; it raises exactly
\* when an after name matches no listed task; the quests and their tasks
\* are as they were
C25_GetTasks ==
  lastTasks.op = "getTasks" =>
    LET input == lastTasks.input
        list == lastTasks.result
    IN /\ Len(list) = TasksBefore(input, Len(input) + 1)
       /\ \A qi \in 1..Len(input) : \A ti \in 1..Len(input[qi].tasks) :
            Renamed(list[TasksBefore(input, qi) + ti], input[qi],
                    input[qi].tasks[ti])
       /\ lastTasks.res = "throw" <=>
            \E i \in 1..Len(list) : \E k \in 1..Len(list[i].after) :
              /\ list[i].hasAfter
              /\ \A j \in 1..Len(list) : list[j].name # list[i].after[k]
       /\ lastTasks.res = "throw" =>
            \E i \in 1..Len(list) : \E k \in 1..Len(list[i].after) :
              lastTasks.error = <<"Unknown task dependency",
                                  list[i].after[k], list[i].name>>
       /\ quests = input

\* two quests with three tasks: a task of the second quest names a task of
\* the first by its full name and is returned with that name kept
C25_Witness ==
  /\ lastTasks.op = "getTasks" /\ lastTasks.res = "done"
  /\ Len(lastTasks.input) = 2 /\ Len(lastTasks.result) = 3
  /\ lastTasks.result[3].name = <<"R", "/", "b">>
  /\ lastTasks.result[3].after = << <<"R", "/", "b">>, <<"Q", "/", "a">> >>
  /\ lastTasks.result[3].completed.kind = "or"
  /\ lastTasks.result[2].ready.kind = "and"

\* a task named "a/b" is asked for by that name, which is kept unprefixed
\* and so matches no returned task
C25_WitnessSlash ==
  /\ lastTasks.op = "getTasks" /\ lastTasks.res = "throw"
  /\ \E i \in 1..Len(lastTasks.result) :
       lastTasks.result[i].name = <<"Q", "/", "a", "/", "b">>
  /\ lastTasks.error[2] = <<"a", "/", "b">>

----------------------------------------------------------------------------
(* Properties of Outfit.current *)

\* C26: for every player state current() returns, without raising, an outfit
\* whose active familiar, per-slot items, riders and modes are the familiar,
\* worn items, carried familiars and item modes of the player
C26_CurrentMirrorsPlayer ==
  lastEquip.op = "current" =>
    /\ lastEquip.res = "success"
    /\ outfit.familiar = player.familiar
    /\ \A s \in SlotSet : outfit.equips[s] = player.equipment[s]
    /\ outfit.riders["crown-of-thrones"] = player.enthroned
    /\ outfit.riders["buddy-bjorn"] = player.bjorned
    /\ outfit.modes = player.modes

----------------------------------------------------------------------------
(* Properties of equip(item) without a slot *)

\* (a) the item's own slot, not an accessory slot, is empty and the item is
\* compatible with what the outfit holds
OwnSlotApplies(o, item) ==
  /\ toSlot(item) \notin {"acc1", "acc2", "acc3"}
  /\ ~has(o, toSlot(item))
  /\ toSlot(item) = "off-hand" /\ has(o, "weapon")
       => weaponHands(o.equips["weapon"]) = 1
  /\ toSlot(item) = "familiar" /\ o.familiar # Absent
       => canEquipFamiliar(o.familiar, item)
  /\ toSlot(item) = "weapon" /\ build = "main"
       => weaponsCompatible(item, o.equips["off-hand"])
  /\ toSlot(item) # "familiar" => canEquip(item)

\* (b) an accessory, and one of acc1, acc2, acc3 is empty
AccessoryApplies(o, item) ==
  /\ toSlot(item) = "acc1" /\ canEquip(item)
  /\ \E k \in 1..3 : ~has(o, accSlots[k])

FirstEmptyAccessory(o) ==
  accSlots[CHOOSE k \in 1..3 :
             ~has(o, accSlots[k]) /\ \A j \in 1..(k - 1) : has(o, accSlots[j])]

\* (c) a one-handed weapon, the skill owned, the off-hand empty and the
\* weapon held, if any, one-handed
DualWieldApplies(o, item) ==
  /\ toSlot(item) = "weapon" /\ weaponHands(item) = 1 /\ canEquip(item)
  /\ haveDoubleFisted
  /\ ~has(o, "off-hand")
  /\ has(o, "weapon") => weaponHands(o.equips["weapon"]) = 1
  /\ build = "main" => weaponsCompatible(o.equips["weapon"], item)

\* the familiar that can hold the item
Holder(item) ==
  IF toSlot(item) = "weapon" THEN "Disembodied Hand"
  ELSE IF toSlot(item) = "off-hand" THEN "Left-Hand Man" ELSE Absent

\* (d) the familiar-equipment slot is empty and the holding familiar is or
\* can become the active familiar
FamiliarApplies(o, item) ==
  /\ Holder(item) # Absent /\ ~singleEquip(item)
  /\ ~has(o, "familiar")
  /\ o.familiar \in {Absent, Holder(item)}
  /\ haveFamiliar(Holder(item))
  /\ \A s \in riderSlots : o.riders[s] # Holder(item)

\* the placement the order (a), (b), (c), (d) gives
Placement(o, item) ==
  IF OwnSlotApplies(o, item) THEN R("success", set(o, toSlot(item), item))
  ELSE IF AccessoryApplies(o, item)
  THEN R("success", set(o, FirstEmptyAccessory(o), item))
  ELSE IF DualWieldApplies(o, item) THEN R("success", set(o, "off-hand", item))
  ELSE IF FamiliarApplies(o, item)
  THEN R("success", [set(o, "familiar", item) EXCEPT !.familiar = Holder(item)])
  ELSE R("fail", o)

\* C27: for an available item not yet in the outfit, equip(item) without a
\* slot succeeds with the first placement that applies among (a) its own
\* non-accessory slot, (b) the first empty accessory slot, (c) the off-hand by
\* dual-wielding, (d) the familiar-equipment slot with the holding familiar
\* made active, and fails iff none applies
C27_PlacementOrder ==
  \A item \in Items \ {"none"} :
    isAvailable(outfit, item) /\ ~haveEquipped(outfit, item, Absent)
      => equipItem(build, outfit, item, Absent) = Placement(outfit, item)

----------------------------------------------------------------------------
(* Properties of equip(item, slot) and equip(familiar): the frame *)

\* o and p differ at most in what slot holds and in the active familiar
SameBut(o, p, slot) ==
  /\ \A s \in SlotSet \ {slot} : p.equips[s] = o.equips[s]
  /\ p.riders = o.riders /\ p.modes = o.modes /\ p.avoid = o.avoid

\* C28: equip(item, slot) returns false when the slot already holds a
\* different item; a failing equip of a single item or familiar leaves the
\* outfit as it was; a successful equip(item, slot) makes exactly that slot
\* hold the item and changes nothing else, except the active familiar when the
\* item is given to a familiar that holds it
C28_EquipConfined ==
  /\ \A item \in Items, slot \in SlotSet :
       LET r == equipItem(build, outfit, item, slot) IN
       /\ r.res \in {"success", "fail"}
       /\ has(outfit, slot) /\ outfit.equips[slot] # item => r.res = "fail"
       /\ r.res = "fail" => r.o = outfit
       /\ r.res = "success" =>
            /\ r.o.equips[slot] = item
            /\ SameBut(outfit, r.o, slot)
            /\ \/ r.o.familiar = outfit.familiar
               \/ /\ slot = "familiar" /\ toSlot(item) # "familiar"
                  /\ outfit.familiar = Absent
                  /\ r.o.familiar = Holder(item)
  /\ \A item \in Items :
       LET r == equipItem(build, outfit, item, Absent) IN
       r.res = "fail" => r.o = outfit
  /\ \A familiar \in Familiars :
       LET r == equipFamiliar(outfit, familiar) IN
       r.res = "fail" => r.o = outfit

----------------------------------------------------------------------------
(* Properties of equip(familiar) *)

\* the item the familiar would have to use
Required(o) == o.equips["familiar"]
NeedsUse(o) == Required(o) # Absent /\ Required(o) # "none"

\* the outcome of equip(f) on the outfit agrees with the blocked cases
FamiliarOutcome(f, blocked) ==
  LET r == equipFamiliar(outfit, f) IN
  IF f = outfit.familiar THEN r = R("success", outfit)
  ELSE IF blocked THEN r = R("fail", outfit)
  ELSE r = R("success", [outfit EXCEPT !.familiar = f])

\* C29 (as stated): equip(familiar) is a success that changes nothing when
\* the familiar is already active; it fails, changing nothing, if another
\* familiar is active, if the familiar is not owned, if it is in a rider
\* slot, or if it cannot use the item in the familiar-equipment slot;
\* otherwise it becomes the active familiar
C29_FamiliarOwnedAlways ==
  \A f \in Familiars :
    FamiliarOutcome(f, \/ outfit.familiar # Absent
                       \/ ~haveFamiliar(f)
                       \/ \E s \in riderSlots : outfit.riders[s] = f
                       \/ NeedsUse(outfit)
                            /\ ~canEquipFamiliar(f, Required(outfit)))

\* C29 (amended): the same, the tests of ownership and of the rider slots
\* being made only for a familiar other than $familiar`none`
C29_FamiliarOwnedUnlessNone ==
  \A f \in Familiars :
    FamiliarOutcome(f, \/ outfit.familiar # Absent
                       \/ f # "none" /\ ~haveFamiliar(f)
                       \/ f # "none" /\ \E s \in riderSlots : outfit.riders[s] = f
                       \/ NeedsUse(outfit)
                            /\ ~canEquipFamiliar(f, Required(outfit)))

\* the familiar riding in the bjorn was just refused as active familiar,
\* and no familiar is active, so that none would be accepted
C29_Witness ==
  /\ lastEquip.op = "familiar" /\ lastEquip.res = "fail"
  /\ outfit.familiar = Absent
  /\ outfit.riders["buddy-bjorn"] = "Mosquito"
  /\ equipFamiliar(outfit, "Mosquito").res = "fail"
  /\ equipFamiliar(outfit, "none").res = "success"

----------------------------------------------------------------------------
(* Properties of the rider slots *)

\* target k of the last rider call could ride in its slot
Rideable(k) ==
  LET f == lastEquip.targets[k] IN
  /\ haveFamiliar(f)
  /\ f # lastEquip.before.familiar
  /\ \A s \in riderSlots \ {lastEquip.slot} : lastEquip.before.riders[s] # f

\* C30: a rider slot that already holds a familiar gives success iff that
\* familiar is among the candidates, and is never changed; an empty rider
\* slot gets the first candidate in list order that is owned, is not the
\* active familiar and is not in the other rider slot, and the call fails
\* without change if there is none
C30_RiderFromList ==
  lastEquip.op = "riders" =>
    LET was == lastEquip.before
        riding == was.riders[lastEquip.slot]
        n == Len(lastEquip.targets)
    IN IF riding # Absent
       THEN /\ outfit = was
            /\ lastEquip.res = "success" <=>
                 \E k \in 1..n : lastEquip.targets[k] = riding
       ELSE IF \E k \in 1..n : Rideable(k)
       THEN /\ lastEquip.res = "success"
            /\ \E k \in 1..n :
                 /\ Rideable(k) /\ \A j \in 1..(k - 1) : ~Rideable(j)
                 /\ outfit = [was EXCEPT !.riders[lastEquip.slot] =
                                           lastEquip.targets[k]]
       ELSE lastEquip.res = "fail" /\ outfit = was

\* of three candidates the first is not owned and the second rides in the
\* other slot: the third is taken
C30_Witness ==
  /\ lastEquip.op = "riders" /\ lastEquip.res = "success"
  /\ Len(lastEquip.targets) = 3
  /\ ~haveFamiliar(lastEquip.targets[1])
  /\ \E s \in riderSlots \ {lastEquip.slot} :
       lastEquip.before.riders[s] = lastEquip.targets[2]
  /\ outfit.riders[lastEquip.slot] = lastEquip.targets[3]

----------------------------------------------------------------------------
(* Properties of setModes *)

\* a value is given
Given(v) == v \notin {Absent, ExplicitUndefined}

\* the requested value clashes with the one already set
Clash(mine, theirs) == Given(mine) /\ Given(theirs) /\ mine # theirs

\* the outcome for one mode or retrocape part: a clashing value is kept, any
\* other requested value is the value afterwards
Settled(mine, theirs, after) ==
  IF Clash(mine, theirs) THEN after = mine
  ELSE Given(theirs) => after = theirs

\* C31: setModes(modes) returns false iff some requested mode or retrocape
\* part differs from the value already set for it; a conflicting mode keeps
\* its value, and every other requested mode or retrocape part of the same
\* call is applied
C31_ModesApplied ==
  \A modes \in ModeRequests :
    LET mine == outfit.modes
        r == setModes(outfit, modes)
        parts == mine.retrocape /\ modes.retrocape
    IN /\ r.res = "fail" <=>
            \/ Clash(mine.parka, modes.parka)
            \/ parts /\ Clash(mine.retro0, modes.retro0)
            \/ parts /\ Clash(mine.retro1, modes.retro1)
       /\ Settled(mine.parka, modes.parka, r.o.modes.parka)
       /\ modes.retrocape =>
            /\ r.o.modes.retrocape
            /\ Settled(mine.retro0, modes.retro0, r.o.modes.retro0)
            /\ Settled(mine.retro1, modes.retro1, r.o.modes.retro1)

----------------------------------------------------------------------------
(* Properties of the effect step when it completes *)

\* the songs among a list of effects
SongsOf(list) == SelectSeq(list, LAMBDA e : e \in Songs)

\* the songs that were active and that the task did not ask for
ExtraBefore ==
  SelectSeq(lastAcquire.before,
            LAMBDA e : e \in Songs /\ ~includes(Requested, e))

\* max(0, n)
AtLeastZero(n) == IF n > 0 THEN n ELSE 0

\* C32: when the effect step completes without raising, every requested
\* effect is active, no requested song was removed, the active songs are at
\* most the cap, and the non-requested songs removed number exactly
\* max(0, requested songs + active non-requested songs - cap)
C32_EffectsAcquired ==
  lastAcquire.op = "acquireEffects" /\ lastAcquire.res = "done" =>
    /\ \A k \in 1..Len(lastAcquire.effects) :
         includes(myEffects, lastAcquire.effects[k])
    /\ \A k \in 1..Len(lastAcquire.removed) :
         /\ ~includes(Requested, lastAcquire.removed[k])
         /\ includes(ExtraBefore, lastAcquire.removed[k])
    /\ Len(SongsOf(myEffects)) <= Cap
    /\ Len(lastAcquire.removed) =
         AtLeastZero(Len(Requested) + Len(ExtraBefore) - Cap)

\* two songs asked for with two other songs active under a cap of three:
\* one song is removed and the requested ones are obtained
C32_Witness ==
  /\ lastAcquire.op = "acquireEffects"
  /\ lastAcquire.res = "done"
  /\ ~mariachi
  /\ Len(Requested) = 2
  /\ Len(ExtraBefore) = 2
  /\ Len(lastAcquire.removed) = 1
  /\ lastAcquire.applied # <<>>

----------------------------------------------------------------------------
(* Properties of the accessory placement of dress() *)

\* C33: dress() never raises "No accessory slots remaining", whatever the
\* outfit built by the equip operations and whatever the player wears
C33_AccessorySlotsSuffice ==
  lastDress.op = "dress" =>
    /\ lastDress.error # "No accessory slots remaining"
    /\ Len(AccessoryCalls) <= 3

\* an outfit of three accessories dressed on a player who wears one of them
\* in another slot than the outfit names and another accessory beside it:
\* two of the three are placed in the slots left
C33_Witness ==
  /\ lastDress.op = "dress"
  /\ Len(accessoryEquips(lastDress.o)) = 3
  /\ \E s \in {"acc2", "acc3"} :
       /\ lastDress.before.worn[s] = lastDress.o.equips["acc1"]
       /\ lastDress.before.worn["acc1"] # lastDress.o.equips["acc1"]
  /\ Len(AccessoryCalls) = 2

----------------------------------------------------------------------------
(* Properties of the combat-script file *)

\* the last call was a setCombat
CombatSet == ccs.last.op = "setCombat"

\* the last call rewrote the file: the engine's cached text differed
Rewritten == ccs.last.text # ccs.last.cached

\* C34: after every setCombat call of an engine without the ccs option the
\* combat-script file holds the text compiled for the task; the file is
\* rewritten only when the text differs from the text the engine last wrote,
\* which cachedCcsContents always equals
C34_CcsFileCurrent ==
  CombatSet =>
    /\ ccs.file = ccs.last.text
    /\ ccs.file # ccs.last.file => ccs.last.text # ccs.last.wrote
    /\ ccs.last.cached = ccs.last.wrote
    /\ ccs.cachedCcsContents[ccs.last.engine] = ccs.wrote[ccs.last.engine]

----------------------------------------------------------------------------
(* Properties of lastEncounterWasWanderingNC *)

\* the three rules: a zone-specific name in one of its locations, an
\* environment-specific name in a location of its environment, or a general
\* wandering noncombat; a zone-specific name goes by the first rule alone
WanderingByRule(last, location) ==
  IF last \in DOMAIN zoneSpecificNCs
  THEN location \in zoneSpecificNCs[last]
  ELSE \/ /\ last \in DOMAIN environmentSpecificNCs
          /\ location # NoLocation
          /\ environmentSpecificNCs[last] = environment(location)
       \/ last \in wanderingNCs

\* C35: lastEncounterWasWanderingNC() returns true only when one of the three
\* rules holds for the last encounter and the last visited location; for any
\* other encounter name it returns false, whatever the location, none included
C35_WanderingOnlyByRule ==
  lastEncounterWasWanderingNC => WanderingByRule(lastEncounter, lastAdventure)

----------------------------------------------------------------------------
(* Properties of the hands of an outfit *)

\* the outfit holds a real item in its off-hand slot
OffhandHeld(o) == has(o, "off-hand") /\ o.equips["off-hand"] # "none"

\* the outfit holds a weapon that is not one-handed
WeaponNotOneHanded(o) ==
  /\ has(o, "weapon")
  /\ o.equips["weapon"] # "none"
  /\ weaponHands(o.equips["weapon"]) # 1

\* C36: whatever equip calls were made, in whatever order, an outfit never
\* holds a real off-hand item together with a weapon that is not one-handed
C36_HandsCompatible == ~(OffhandHeld(outfit) /\ WeaponNotOneHanded(outfit))

----------------------------------------------------------------------------
(* Properties of the assignments of an outfit *)

\* a step keeps every body slot, the familiar, every rider slot and every
\* mode value that the outfit had assigned before it
KeepsAssigned ==
  /\ \A s \in SlotSet :
       outfit.equips[s] # Absent => outfit'.equips[s] = outfit.equips[s]
  /\ outfit.familiar # Absent => outfit'.familiar = outfit.familiar
  /\ \A s \in riderSlots :
       outfit.riders[s] # Absent => outfit'.riders[s] = outfit.riders[s]
  /\ outfit.modes.parka # Absent => outfit'.modes.parka = outfit.modes.parka
  /\ outfit.modes.retrocape => outfit'.modes.retrocape
  /\ outfit.modes.retro0 # Absent
       => outfit'.modes.retro0 = outfit.modes.retro0
  /\ outfit.modes.retro1 # Absent
       => outfit'.modes.retro1 = outfit.modes.retro1

\* C37: assignments are write-once: no equip, equipFirst, tryEquip, bjornify,
\* enthrone or setModes call, successful or not, changes or clears a body
\* slot, the familiar, a rider slot or a mode value already assigned
C37_WriteOnce == [][KeepsAssigned]_vars

\* something is assigned in the outfit
Assigned(o) ==
  \/ \E s \in SlotSet : o.equips[s] # Absent
  \/ o.familiar # Absent
  \/ \E s \in riderSlots : o.riders[s] # Absent
  \/ o.modes.parka # Absent
  \/ o.modes.retro0 # Absent

\* a second call that failed on an outfit holding a hat, a familiar, a rider
\* or a mode from the first
C37_Witness ==
  /\ ops = 2
  /\ lastEquip.res = "fail"
  /\ lastEquip.op \in {"item", "familiar", "first", "try", "rider", "modes"}
  /\ Assigned(outfit)

----------------------------------------------------------------------------
(* Properties of tryEquip *)

\* what equip(thing, slot) gives on the outfit the call found
WouldEquip ==
  IF lastEquip.kind = "item"
  THEN equipItem(build, lastEquip.before, lastEquip.item, lastEquip.slot)
  ELSE LET r == equipSpec(build, lastEquip.before, lastEquip.spec)
       IN R(r.res, r.o)

\* C38: tryEquip(thing, slot) returns true iff equip(thing, slot) would
\* succeed completely, and then the thing is equipped; when it returns false
\* the outfit is exactly as it was before the call
C38_TryEquipAllOrNothing ==
  lastEquip.op = "try" =>
    /\ lastEquip.res = "success" <=> WouldEquip.res = "success"
    /\ lastEquip.res = "success" => outfit = WouldEquip.o
    /\ lastEquip.res = "fail" => outfit = lastEquip.before

----------------------------------------------------------------------------
(* Properties of run() under limit.tries *)

\* the sum of the tasks' tries values
SumOfTries ==
  Sum([i \in 1..Len(tasks) |-> tasks[i].limit.tries], 1..Len(tasks))

\* run() was called without an action budget
Unbudgeted == run.state # "new" /\ run.actions = Undef

\* a repetition of the body that leaves the game as the repetition found it
\* and is to be repeated again: the loop is back where it was
LoopsBack ==
  /\ cur # 0 /\ pc = "do" /\ pc' = "while"
  /\ log # <<>> /\ log[Len(log)] = "clear"
  /\ world' = world
  /\ shouldRepeatAdv(task)'

\* the calls of execute stay within the sum of the tries values, and a
\* return finds no task available
WithinTries ==
  /\ Unbudgeted => Len(run.executed) <= SumOfTries
  /\ Unbudgeted /\ run.state = "returned" => getNextTask = 0

\* C39: with a positive limit.tries on every task, completed() never going
\* back to false and every callback returning, run() without a budget ends
\* after at most the sum of the tries values calls of execute, on no task
\* being available or on a raised error: the calls stay within that sum, a
\* return finds no task available, and no call stays in its body for ever
C39_RunWithinTries == [](WithinTries) /\ [][~LoopsBack]_vars

----------------------------------------------------------------------------
(* Properties of limit.skip *)

\* the number of attempts made on a task so far
AttemptsMade(name) == IF attempts[name] = Undef THEN 0 ELSE attempts[name]

\* the number of times the current run() executed the i-th task
Executions(i) ==
  Cardinality({k \in 1..Len(run.executed) : run.executed[k] = i})

\* C40: a task with limit.skip = n, for any n >= 0, is unavailable whenever
\* the attempts made on it so far are at least n: available is false,
\* getNextTask does not return it, and run executes it at most n times
C40_SkipLimit ==
  \A i \in 1..Len(tasks) :
    tasks[i].limit.skip # Undef =>
      /\ AttemptsMade(tasks[i].name) >= tasks[i].limit.skip
           => /\ available(tasks[i]) = "false"
              /\ getNextTask # i
      /\ Executions(i) <= tasks[i].limit.skip

====
